---------------------------- MODULE Spec2Model ----------------------------
(***************************************************************************)
(* A model of the NDash BIND dashboard (alsyundawy/ndash-bind):            *)
(*   - utils/bindConfig.js   (src/unnamed/part_000, lines 1-544)           *)
(*   - services/bindService.js                                             *)
(*   - routes/views.js       (src/services/bindService.js, 2064-2195)      *)
(*                                                                         *)
(* The configuration document /etc/bind/named.conf.local is a sequence of  *)
(* tokens.  A token stands for a fixed piece of text: a brace, a           *)
(* semicolon, a newline, the indentation of a line, the header `zone "n"`, *)
(* the header `view "n"`, or a clause.  The scanners of the code read the  *)
(* text character by character and look only at braces, at white space    *)
(* and semicolons, and at the headers; on tokens they do the same.         *)
(*                                                                         *)
(* Names are matched literally.  (The code builds its patterns from the    *)
(* unescaped name; the names of this model contain no character that is    *)
(* special in a pattern and differ in more than letter case.)              *)
(*                                                                         *)
(* Faults: the external validator may reject a candidate, the reload may   *)
(* fail, and the copy that restores a backup may fail.  Other file system  *)
(* calls succeed.  /etc/bind/named.conf.root-hints declares no zone, so    *)
(* moveZonesFromFileToGlobal moves nothing.                                *)
(***************************************************************************)
EXTENDS Integers, Sequences, FiniteSets, TLC

(***************************************************************************)
(* Bounds of the model.                                                    *)
(***************************************************************************)
MaxItems == 3
MaxViewZones == 1
MaxOps == 2

ZoneNames == {"z1", "z2"}
\* The zone of the createZone scenario, a zone with a hyphen for its dot and
\* the zone with a dot at its end.
CreateNames == {"example.com", "example-com", "example.com."}

\* zoneName.replace(/\.$/, ''), for the names of the model
ZoneFileName(zoneName) == IF zoneName = "example.com." THEN "example.com" ELSE zoneName
ViewNames == {"internal", "guest"}

(***************************************************************************)
(* Tokens.  A token is a piece of text with the spaces inside and after    *)
(* it; SP is the indentation at the start of a line.                       *)
(*   ZONE(n)  zone "n"          TYPE(t)  type t;                           *)
(*   VIEW(n)  view "n"          FILE(f)  file "/etc/bind/zones/db.f";      *)
(*   ACL(n)   acl "n"           SFILE(f) file "/etc/bind/zones/slave/f.db"; *)
(*   W(s)     the words s       ITEM(x)  x;                                *)
(*   COMMENT(x)  text x after `//`, up to the end of the line              *)
(***************************************************************************)
LB == <<"{", "">>
RB == <<"}", "">>
SEMI == <<";", "">>
NL == <<"nl", "">>
SP == <<"sp", "">>
ZONE(n) == <<"zone", n>>
VIEW(n) == <<"view", n>>
TYPE(t) == <<"type", t>>
FILE(f) == <<"file", f>>
W(s) == <<"w", s>>
ITEM(x) == <<"item", x>>
ACL(n) == <<"acl", n>>
SFILE(f) == <<"sfile", f>>
COMMENT(x) == <<"//", x>>

IsWs(t) == t = SP \/ t = NL
IsWsOrSemi(t) == IsWs(t) \/ t = SEMI

Min(S) == CHOOSE x \in S : \A y \in S : x <= y
Max(S) == CHOOSE x \in S : \A y \in S : x >= y

\* The element of a one-element set: Only({e(x) : x \in {v}}) is e(v), with
\* v computed once.
Only(S) == CHOOSE x \in S : TRUE

\* content.slice(a, b), given by the first and the last position kept.
Slice(s, a, b) == IF a > b THEN <<>> ELSE SubSeq(s, a, b)

\* block goes in before position pos.
InsertAt(s, pos, block) == Slice(s, 1, pos - 1) \o block \o Slice(s, pos, Len(s))

\* The positions of s that hold t.
Positions(s, t) == {i \in 1..Len(s) : s[i] = t}

\* s.indexOf(t, from): the first position >= from that holds t, 0 if none.
IndexOfTok(s, t, from) ==
    LET S == {i \in Positions(s, t) : i >= from}
    IN IF S = {} THEN 0 ELSE Min(S)

\* The brace counter of the scanners: from position open on, the count goes
\* up at an open brace and down at a close brace; the position of the first
\* close brace at which it is 0, and 0 if there is none.
MatchClose(s, open) ==
    LET lbs == {i \in Positions(s, LB) : i >= open}
        rbs == {i \in Positions(s, RB) : i >= open}
        count(i) == Cardinality({k \in lbs : k <= i}) - Cardinality({k \in rbs : k <= i})
        S == {i \in rbs : count(i) = 0}
    IN IF S = {} THEN 0 ELSE Min(S)

\* while (j < content.length && /[\s;\n\r]/.test(content[j])) j++
SkipWsSemi(s, j) == Min({i \in j..Len(s) : ~IsWsOrSemi(s[i])} \cup {Len(s) + 1})

SkipWs(s, j) == Min({i \in j..Len(s) : ~IsWs(s[i])} \cup {Len(s) + 1})

(***************************************************************************)
(* Texts the code builds.                                                  *)
(***************************************************************************)
Acls == { [allow |-> <<"any">>, deny |-> <<>>],
          [allow |-> <<"lan">>, deny |-> <<"bad">>] }
DefaultAcl == [allow |-> <<"any">>, deny |-> <<>>]

\* list.join('; ') followed by ';'
JoinItems(l) == [i \in 1..Len(l) |-> ITEM(l[i])]

\* The same after `//`: text of a comment.
JoinComment(l) == [i \in 1..Len(l) |-> COMMENT(l[i])]

\* aclLines.join('\n'): `    match-clients { a; b; };` and `    // deny: c;`
AclLines(acl) ==
    LET allowLine == <<SP, W("match-clients"), LB>> \o JoinItems(acl.allow)
                        \o <<RB, SEMI>>
        denyLine == <<SP, COMMENT("deny:")>> \o JoinComment(acl.deny)
    IN IF acl.allow # <<>> /\ acl.deny # <<>> THEN allowLine \o <<NL>> \o denyLine
       ELSE IF acl.allow # <<>> THEN allowLine
       ELSE IF acl.deny # <<>> THEN denyLine
       ELSE <<>>

\* `zone "n" {\n    type t;\n    file "f";\n    allow-update { none; };\n};\n`
\* (no allow-update line for a hint zone)
ZoneBlock(zoneName, zoneType, fileTok) ==
    <<ZONE(zoneName), LB, NL, SP, TYPE(zoneType), NL, SP, fileTok>>
    \o (IF zoneType = "hint" THEN <<>>
        ELSE <<NL, SP, W("allow-update"), LB, ITEM("none"), RB, SEMI>>)
    \o <<NL, RB, SEMI, NL>>

\* `\nview "v" {\n<aclLines>\n};\n`
ViewBlock(viewName, acl) ==
    <<NL, VIEW(viewName), LB, NL>> \o AclLines(acl) \o <<NL, RB, SEMI, NL>>

\* `\nview "v" {\n<aclLines>\n\n    <zoneBlock>\n};\n`
ViewBlockWithZone(viewName, acl, zoneBlock) ==
    <<NL, VIEW(viewName), LB, NL>> \o AclLines(acl) \o <<NL, NL, SP>>
    \o zoneBlock \o <<NL, RB, SEMI, NL>>

(***************************************************************************)
(* bindConfig.js: the content-only helpers.                                *)
(***************************************************************************)
\* .replace(/\n{3,}/g, '\n\n'): a newline that follows two newlines goes.
RECURSIVE CollapseNL(_)
CollapseNL(s) ==
    LET S == {i \in 3..Len(s) : s[i] = NL /\ s[i - 1] = NL /\ s[i - 2] = NL}
    IN IF S = {} THEN s
       ELSE CollapseNL(Slice(s, 1, Min(S) - 1) \o Slice(s, Min(S) + 1, Len(s)))

\* .replace(/^\s+/, '').replace(/\s+$/, '')
Trim(s) ==
    LET S == {i \in 1..Len(s) : ~IsWs(s[i])}
    IN IF S = {} THEN <<>> ELSE SubSeq(s, Min(S), Max(S))

\* The found block [start, end) of a named header, 0 when the scan fails:
\* the first header, the first open brace after it, the matching close
\* brace, and the white space and semicolons that follow it.
BlockFrom(content, startIndex, open) ==
    Only({[start |-> startIndex, open |-> open, close |-> close,
           end |-> IF close = 0 THEN 0 ELSE SkipWsSemi(content, close + 1)] :
          close \in {IF open = 0 THEN 0 ELSE MatchClose(content, open)}})

FindBlock(content, header) ==
    Only({BlockFrom(content, startIndex,
                    IF startIndex = 0 THEN 0 ELSE IndexOfTok(content, LB, startIndex)) :
          startIndex \in {IndexOfTok(content, header, 1)}})

\* A removal that removes nothing.
removeNothing(content, zoneName) == content

removeZoneFromConfigContent(content, zoneName) ==
    Only({IF b.start = 0 \/ b.open = 0 \/ b.close = 0 THEN content
          ELSE LET before == Slice(content, 1, b.start - 1)
                   after == Slice(content, b.end, Len(content))
               IN Trim(CollapseNL(before \o after)) \o <<NL>> :
          b \in {FindBlock(content, ZONE(zoneName))}})

\* The result of a helper that may throw.
Ok(text) == [err |-> FALSE, text |-> text]
Err == [err |-> TRUE, text |-> <<>>]

insertZoneIntoViewContent(content, zoneBlock, viewName, viewAcl) ==
    Only({IF b.start = 0
          THEN Ok(content \o ViewBlockWithZone(viewName, viewAcl, zoneBlock))
          ELSE IF b.open = 0 \/ b.close = 0 THEN Err
          ELSE LET viewHeader == Slice(content, b.start, b.open)
                   viewBody == Slice(content, b.open + 1, b.close - 1)
                   viewFooter == Slice(content, b.close, b.end - 1)
                   newViewBlock == viewHeader \o viewBody \o <<NL, SP>> \o zoneBlock
                                       \o viewFooter
               IN Ok(Slice(content, 1, b.start - 1) \o newViewBlock
                       \o Slice(content, b.end, Len(content))) :
          b \in {FindBlock(content, VIEW(viewName))}})

buildMoveZoneToViewContent(content, zoneName, fileTok, targetView, targetViewAcl) ==
    LET cleaned == removeZoneFromConfigContent(content, zoneName)
        zoneBlock == ZoneBlock(zoneName, "master", fileTok)
    IN insertZoneIntoViewContent(cleaned, zoneBlock, targetView, targetViewAcl)

\* A removal of a view that takes the end of the text for the end of a block
\* that has no close brace.
removeViewToEnd(content, viewName) ==
    Only({IF b.start = 0 THEN content
          ELSE IF b.close = 0 THEN Slice(content, 1, b.start - 1)
          ELSE Slice(content, 1, b.start - 1) \o Slice(content, b.end, Len(content)) :
          b \in {FindBlock(content, VIEW(viewName))}})

\* removeViewFromConfig: the content it writes; the content it read when it
\* writes nothing (view absent, or malformed).
removeViewContent(content, viewName) ==
    Only({IF b.start = 0 \/ b.close = 0 THEN content
          ELSE Slice(content, 1, b.start - 1) \o Slice(content, b.end, Len(content)) :
          b \in {FindBlock(content, VIEW(viewName))}})

(***************************************************************************)
(* The patterns of bindService.js.  `\s*\{` after a header, `\};` and      *)
(* `\n\};` after an open brace; a lazy `[\s\S]*?` stops at the first.      *)
(***************************************************************************)
\* The open brace that follows the header at position i, 0 if none.
HeaderOpen(s, i) ==
    Only({IF j <= Len(s) /\ s[j] = LB THEN j ELSE 0 : j \in {SkipWs(s, i + 1)}})

\* The first `};` at or after position from: the position of its brace.
FirstCloseSemi(s, from) ==
    LET S == {k \in Positions(s, RB) : k >= from /\ k < Len(s) /\ s[k + 1] = SEMI}
    IN IF S = {} THEN 0 ELSE Min(S)

\* The first `\n};` at or after position from: the position of its newline.
FirstNlCloseSemi(s, from) ==
    LET S == {k \in Positions(s, NL) :
                k >= from /\ k + 2 <= Len(s) /\ s[k + 1] = RB /\ s[k + 2] = SEMI}
    IN IF S = {} THEN 0 ELSE Min(S)

\* `\s*\};` at position p.
ClosesAt(s, p) ==
    \E r \in {SkipWs(s, p)} : r < Len(s) /\ s[r] = RB /\ s[r + 1] = SEMI

\* The first match at or after from of `<header>\s*\{[\s\S]*?\};`: the
\* positions of the header, of the open brace and of the brace of `};`.
LazyAt(s, i) ==
    Only({[start |-> i, open |-> o,
           close |-> IF o = 0 THEN 0 ELSE FirstCloseSemi(s, o + 1)] :
          o \in {HeaderOpen(s, i)}})

LazyBlock(s, isHeader(_), from) ==
    Only({IF S = {} THEN [start |-> 0, open |-> 0, close |-> 0]
          ELSE LazyAt(s, Min(S)) :
          S \in {{i \in from..Len(s) : isHeader(s[i]) /\ LazyAt(s, i).close # 0}}})

\* content.replace(/<header>\s*\{[\s\S]*?\};\s*/g, '')
RECURSIVE RemoveLazy(_, _, _)
RemoveLazy(s, header, from) ==
    LET is(t) == t = header
    IN Only({IF m.start = 0 THEN s
             ELSE RemoveLazy(Slice(s, 1, m.start - 1)
                                 \o Slice(s, SkipWs(s, m.close + 2), Len(s)),
                             header, m.start) :
             m \in {LazyBlock(s, is, from)}})

(***************************************************************************)
(* bindService.js: listZones and getZone.                                  *)
(***************************************************************************)
IsViewHeader(t) == t[1] = "view"
IsZoneHeader(t) == t[1] = "zone"
IsFile(t) == t[1] = "file" \/ t[1] = "sfile"

\* The first match at or after from of viewRegex,
\* /view\s+"([^"]+)"\s*\{([\s\S]*?)\n\};/: header, open brace, newline.
ViewAt(s, i) ==
    Only({[start |-> i, open |-> o,
           nl |-> IF o = 0 THEN 0 ELSE FirstNlCloseSemi(s, o + 1)] :
          o \in {HeaderOpen(s, i)}})

ViewMatch(s, from) ==
    Only({IF S = {} THEN [start |-> 0, open |-> 0, nl |-> 0]
          ELSE ViewAt(s, Min(S)) :
          S \in {{i \in from..Len(s) : IsViewHeader(s[i]) /\ ViewAt(s, i).nl # 0}}})

\* The zones that zoneRegex, /zone\s+"([^"]+)"\s*\{([\s\S]*?)\};/g, finds
\* in s and that have a file clause, in order, reported in view viewName.
\* The entry of a zone block, when the block has a file clause.
ZoneEntry(zoneName, zoneBlockContent, viewName) ==
    LET files == {k \in 1..Len(zoneBlockContent) : IsFile(zoneBlockContent[k])}
        types == {k \in 1..Len(zoneBlockContent) : zoneBlockContent[k][1] = "type"}
    IN IF files = {} THEN <<>>
       ELSE <<[name |-> zoneName, view |-> viewName,
               file |-> zoneBlockContent[Min(files)],
               type |-> IF types = {} THEN "master"
                        ELSE zoneBlockContent[Min(types)][2]]>>

RECURSIVE ZonesOf(_, _, _)
ZonesOf(s, from, viewName) ==
    Only({IF m.start = 0 THEN <<>>
          ELSE ZoneEntry(s[m.start][2], Slice(s, m.open + 1, m.close - 1), viewName)
                   \o ZonesOf(s, m.close + 2, viewName) :
          m \in {LazyBlock(s, IsZoneHeader, from)}})

\* The zones of the view blocks, view after view.
RECURSIVE ViewZones(_, _)
ViewZones(s, from) ==
    Only({IF vm.start = 0 THEN <<>>
          ELSE ZonesOf(Slice(s, vm.open + 1, vm.nl - 1), 1, s[vm.start][2])
                   \o ViewZones(s, vm.nl + 3) :
          vm \in {ViewMatch(s, from)}})

\* configContent.replace(viewRegex, '\n')
RECURSIVE WithoutViews(_, _)
WithoutViews(s, from) ==
    Only({IF vm.start = 0 THEN Slice(s, from, Len(s))
          ELSE Slice(s, from, vm.start - 1) \o <<NL>> \o WithoutViews(s, vm.nl + 3) :
          vm \in {ViewMatch(s, from)}})

\* listZones: one entry for a name, the first found; view "" at top level.
listZones(configContent) ==
    UNION {{all[k] : k \in {k \in 1..Len(all) :
                              \A j \in 1..(k - 1) : all[j].name # all[k].name}} :
           all \in {ViewZones(configContent, 1)
                      \o ZonesOf(WithoutViews(configContent, 1), 1, "")}}

\* getZone and the `zones.some(z => z.name === zoneName)` of createZone, on
\* the zones that listZones returned.
Listed(zones, zoneName) == \E e \in zones : e.name = zoneName

ListedZone(zones, zoneName) == CHOOSE e \in zones : e.name = zoneName

(***************************************************************************)
(* bindService.js: the adblock zone in named.conf.local.                   *)
(***************************************************************************)
AdblockZone == "adblock"
\* /etc/bind/zones/adblock.db
AdblockFile == FILE("adblock.db")

\* `    zone "n" {\n        type master;\n        file "f";\n
\*          allow-query { any; };\n    };`
AdblockZoneBlock(zoneName, fileTok) ==
    <<SP, ZONE(zoneName), LB, NL, SP, TYPE("master"), NL, SP, fileTok, NL, SP,
      W("allow-query"), LB, ITEM("any"), RB, SEMI, NL, SP, RB, SEMI>>

\* The loop of addAdblockZoneToConfig from position pos on.  `pos =
\* viewStart + 20` is a position inside the ACL line of the view just
\* handled: a view header and the indentation of the line after it are 19
\* characters or more and the clause match-clients follows, in every document
\* of this model; the next `view ` is the next view header.
RECURSIVE AddAdblockFrom(_, _, _, _)
AddAdblockFrom(newContent, zoneName, zoneBlock, pos) ==
    LET S == {i \in pos..Len(newContent) : newContent[i][1] = "view"}
        InView(viewStart, closePos) ==
            LET has == \E k \in viewStart..closePos : newContent[k] = ZONE(zoneName)
                insertPos == Max({k \in 1..closePos : newContent[k] = NL} \cup {0}) + 1
            IN IF closePos = 0 THEN newContent
               ELSE IF has THEN AddAdblockFrom(newContent, zoneName, zoneBlock, viewStart + 1)
               ELSE AddAdblockFrom(
                        InsertAt(newContent, insertPos, zoneBlock \o <<NL>>),
                        zoneName, zoneBlock, viewStart + 1)
    IN IF S = {} THEN newContent
       ELSE Only({InView(Min(S), IF openBracePos = 0 THEN 0
                                 ELSE MatchClose(newContent, openBracePos)) :
                  openBracePos \in {IndexOfTok(newContent, LB, Min(S))}})

\* addAdblockZoneToConfig: the content it commits; the content it read when
\* the zone is already there (it then writes nothing).
addAdblockZoneContent(configContent, zoneName, fileTok) ==
    IF IndexOfTok(configContent, ZONE(zoneName), 1) # 0 THEN configContent
    ELSE AddAdblockFrom(configContent, zoneName, AdblockZoneBlock(zoneName, fileTok), 1)

(***************************************************************************)
(* bindConfig.js: addZoneToConfig, addViewToConfig, addZoneToViewConfig,   *)
(* as functions of the content they read.                                  *)
(***************************************************************************)
\* The pieces of a zone name: its dots and hyphens stand alone.
NameParts(n) ==
    CASE n = "example.com" -> <<"example", ".", "com">>
      [] n = "example-com" -> <<"example", "-", "com">>
      [] n = "example.com." -> <<"example", ".", "com", ".">>
      [] OTHER -> <<n>>

\* new RegExp(`zone\\s+"${zoneName}"`, 'i').test(text) on the header
\* zone "other": the name goes into the pattern as it is, so a dot of
\* zoneName stands for any one character.  The names are in lower case.
ZonePatternTest(zoneName, other) ==
    LET pat == NameParts(zoneName)
        str == NameParts(other)
    IN /\ Len(pat) = Len(str)
       /\ \A i \in 1..Len(pat) : pat[i] = str[i] \/ (pat[i] = "." /\ str[i] \in {".", "-"})

\* addZoneToConfig: the content after fs.appendFile; unchanged when the
\* pattern zone "n" is found.
addZoneToConfigContent(configContent, zoneName, fileTok) ==
    IF \E i \in 1..Len(configContent) :
            configContent[i][1] = "zone" /\ ZonePatternTest(zoneName, configContent[i][2])
    THEN configContent
    ELSE configContent \o <<NL>> \o ZoneBlock(zoneName, "master", fileTok)

\* addViewToConfig: the content after fs.appendFile; unchanged when the
\* pattern view "v" is found.
addViewToConfigContent(content, viewName, acl) ==
    IF IndexOfTok(content, VIEW(viewName), 1) # 0 THEN content
    ELSE content \o ViewBlock(viewName, acl)

\* addZoneToViewConfig after the view has been ensured: err when the view
\* block is malformed, skip when the zone is in the body of the view, and
\* otherwise the content it moves into place.
addZoneToViewContent(content, zoneName, fileTok, viewName, zoneType) ==
    Only({LET viewBody == Slice(content, b.open + 1, b.close - 1)
              zoneBlock == ZoneBlock(zoneName, zoneType, fileTok)
              newViewBlock == Slice(content, b.start, b.open) \o viewBody \o <<NL, SP>>
                                  \o zoneBlock \o Slice(content, b.close, b.end - 1)
          IN IF b.start = 0 \/ b.open = 0 \/ b.close = 0
             THEN [err |-> TRUE, skip |-> FALSE, text |-> content]
             ELSE IF IndexOfTok(viewBody, ZONE(zoneName), 1) # 0
             THEN [err |-> FALSE, skip |-> TRUE, text |-> content]
             ELSE [err |-> FALSE, skip |-> FALSE,
                   text |-> Slice(content, 1, b.start - 1) \o newViewBlock
                              \o Slice(content, b.end, Len(content))] :
          b \in {FindBlock(content, VIEW(viewName))}})

(***************************************************************************)
(* bindService.js: the conversions, the ACLs, allow-transfer.              *)
(***************************************************************************)
\* slaveZoneDef
SlaveZoneDef(zoneName, masterIp, allowTransferAcl) ==
    <<NL, SP, ZONE(zoneName), LB, NL, SP, TYPE("slave"), NL, SP, SFILE(zoneName),
      NL, SP, W("masters"), LB, ITEM(masterIp), RB, SEMI, NL, SP,
      W("allow-transfer"), LB, ITEM(allowTransferAcl), RB, SEMI, NL, SP, RB, SEMI>>

\* masterZoneDef
MasterZoneDef(zoneName, fileTok) ==
    <<NL, SP, ZONE(zoneName), LB, NL, SP, TYPE("master"), NL, SP, fileTok, NL, SP,
      W("allow-transfer"), LB, ITEM("none"), RB, SEMI, NL, SP, W("allow-update"),
      LB, ITEM("none"), RB, SEMI, NL, SP, RB, SEMI>>

\* The placement of a zone definition by convertToSlaveZone and
\* convertToMasterZone: before the `};` of the first `\n};` after the header
\* of view "global"; else before the close brace of the first view; else
\* before the first line that starts with `view`; else at the start.
PlaceZoneDef(content, zoneDef) ==
    LET G == {i \in Positions(content, VIEW("global")) : ViewAt(content, i).nl # 0}
        \* content.lastIndexOf('};', end of the match)
        InsertPoint(nl) == IF nl + 4 <= Len(content) /\ content[nl + 3] = RB
                                /\ content[nl + 4] = SEMI
                           THEN nl + 3 ELSE nl + 1
        V == {i \in 1..Len(content) :
                IsViewHeader(content[i]) /\ HeaderOpen(content, i) # 0}
        L == {i \in 1..Len(content) :
                IsViewHeader(content[i]) /\ (i = 1 \/ content[i - 1] = NL)}
        AtClose(close) ==
            IF close # 0 THEN InsertAt(content, close, zoneDef \o <<NL>>)
            ELSE IF L # {} THEN InsertAt(content, Min(L), zoneDef \o <<NL, NL>>)
            ELSE zoneDef \o <<NL, NL>> \o content
    IN IF G # {}
       THEN InsertAt(content, InsertPoint(ViewAt(content, Min(G)).nl), zoneDef \o <<NL>>)
       ELSE AtClose(IF V = {} THEN 0
                    ELSE MatchClose(content, HeaderOpen(content, Min(V))))

convertToSlaveContent(content, zoneName, masterIp, allowTransferAcl) ==
    PlaceZoneDef(RemoveLazy(content, ZONE(zoneName), 1),
                 SlaveZoneDef(zoneName, masterIp, allowTransferAcl))

convertToMasterContent(content, zoneName, fileTok) ==
    PlaceZoneDef(RemoveLazy(content, ZONE(zoneName), 1),
                 MasterZoneDef(zoneName, fileTok))

\* The clause `<word>\s*\{[^}]+\};` at position m: the position of its close
\* brace, 0 if the clause is not there.
ClauseClose(s, m, word) ==
    LET Close(o, r) ==
            IF m <= Len(s) /\ s[m] = W(word) /\ o # 0 /\ r > o + 1 /\ r < Len(s)
                /\ s[r + 1] = SEMI
            THEN r ELSE 0
    IN Only({Close(o, IndexOfTok(s, RB, o)) : o \in {HeaderOpen(s, m)}})

\* updateSlaveZoneMaster: the first match at or after from of
\* (zone\s+"n"\s*\{[\s\S]*?masters\s*\{\s*)([^}]+)(\s*\};[\s\S]*?\};)
MastersMatch(s, zoneName, from) ==
    LET \* the clause masters at m, and the `};` after it
        At(i, m) == Only({[start |-> i, open |-> HeaderOpen(s, m), close |-> c,
                           end |-> IF c = 0 \/ FirstCloseSemi(s, c + 2) = 0 THEN 0
                                   ELSE FirstCloseSemi(s, c + 2) + 1] :
                          c \in {ClauseClose(s, m, "masters")}})
        Ms(i) == {m \in (HeaderOpen(s, i) + 1)..Len(s) : At(i, m).end # 0}
        S == {i \in from..Len(s) :
                s[i] = ZONE(zoneName) /\ HeaderOpen(s, i) # 0 /\ Ms(i) # {}}
    IN IF S = {} THEN [start |-> 0, open |-> 0, close |-> 0, end |-> 0]
       ELSE At(Min(S), Min(Ms(Min(S))))

\* content.replace(zoneRegex, `$1${newMasterIp};$3`)
RECURSIVE ReplaceMasters(_, _, _, _)
ReplaceMasters(s, zoneName, newMasterIp, from) ==
    LET \* the second group starts after the white space that follows `{`
        Replace(m, g) ==
            ReplaceMasters(Slice(s, 1, g - 1) \o <<ITEM(newMasterIp)>>
                               \o Slice(s, m.close, Len(s)),
                           zoneName, newMasterIp, m.end + 2 - (m.close - g))
    IN Only({IF m.start = 0 THEN s
             ELSE Replace(m, Min({SkipWs(s, m.open + 1), m.close - 1})) :
             m \in {MastersMatch(s, zoneName, from)}})

\* beforeClean: before.replace(/allow-transfer\s*\{[^}]+\};\s*/g, '')
RECURSIVE DropAllowTransfer(_, _)
DropAllowTransfer(s, from) ==
    LET S == {m \in from..Len(s) : ClauseClose(s, m, "allow-transfer") # 0}
        Drop(m) == DropAllowTransfer(
                       Slice(s, 1, m - 1)
                           \o Slice(s, SkipWs(s, ClauseClose(s, m, "allow-transfer") + 2),
                                    Len(s)),
                       m)
    IN IF S = {} THEN s ELSE Drop(Min(S))

\* setZoneAllowTransfer: the first match at or after from of
\* (zone\s+"n"\s*\{[\s\S]*?)(allow-transfer\s*\{[^}]+\};|)(\s*\};):
\* p is where the lazy part stops, q where the third group starts.
AllowTransferMatch(s, zoneName, from) ==
    LET \* where the third group starts when the lazy part stops at p; 0 when
        \* the pattern does not match there
        Third(p) == Only({IF c # 0 /\ ClosesAt(s, c + 2) THEN c + 2
                          ELSE IF ClosesAt(s, p) THEN p ELSE 0 :
                          c \in {ClauseClose(s, p, "allow-transfer")}})
        Ps(i) == {p \in (HeaderOpen(s, i) + 1)..Len(s) : Third(p) # 0}
        S == {i \in from..Len(s) :
                s[i] = ZONE(zoneName) /\ HeaderOpen(s, i) # 0 /\ Ps(i) # {}}
        At(i, p, q) == [start |-> i, p |-> p, q |-> q, end |-> SkipWs(s, q) + 1]
        From(i, p) == At(i, p, Third(p))
    IN IF S = {} THEN [start |-> 0, p |-> 0, q |-> 0, end |-> 0]
       ELSE From(Min(S), Min(Ps(Min(S))))

RECURSIVE ReplaceAllowTransfer(_, _, _, _)
ReplaceAllowTransfer(s, zoneName, aclName, from) ==
    LET allowTransferLine == <<W("allow-transfer"), LB, ITEM(aclName), RB, SEMI>>
        Put(m, replaced) ==
            ReplaceAllowTransfer(
                Slice(s, 1, m.start - 1) \o replaced \o Slice(s, m.end + 1, Len(s)),
                zoneName, aclName, m.start + Len(replaced))
    IN Only({IF m.start = 0 THEN s
             ELSE Put(m, DropAllowTransfer(Slice(s, m.start, m.p - 1), 1) \o <<SP>>
                           \o allowTransferLine \o Slice(s, m.q, m.end)) :
             m \in {AllowTransferMatch(s, zoneName, from)}})

\* aclDef: `acl "name" {\n        entry;\n...\n};\n\n`
AclDef(name, entries) ==
    <<ACL(name), LB>>
    \o (IF Len(entries) = 0 THEN <<NL>>
        ELSE [k \in 1..(3 * Len(entries)) |->
                IF k % 3 = 1 THEN NL ELSE IF k % 3 = 2 THEN SP
                ELSE ITEM(entries[k \div 3])])
    \o <<NL, RB, SEMI, NL, NL>>

\* listACLs finds the name in named.conf.local.
AclListed(content, name) ==
    LET is(t) == t = ACL(name) IN LazyBlock(content, is, 1).start # 0

\* createACL: the ACL goes before the first line that starts with `//`, `#`
\* or `acl`, else at the start.
createACLContent(content, name, entries) ==
    LET S == {i \in 1..Len(content) :
                /\ content[i][1] \in {"acl", "//"}
                /\ (i = 1 \/ content[i - 1] = NL)}
    IN IF S # {} THEN InsertAt(content, Min(S), AclDef(name, entries))
       ELSE AclDef(name, entries) \o content

deleteACLContent(content, name) == RemoveLazy(content, ACL(name), 1)

(***************************************************************************)
(* bindService.js: removeAdblockZoneFromConfig, line by line.              *)
(***************************************************************************)
LineStart(s, i) == Max({k \in 1..(i - 1) : s[k] = NL} \cup {0}) + 1

\* The line ends where the next newline is, or after the last token.
LineEnds(s, from) == {k \in from..Len(s) : s[k] = NL} \cup {Len(s) + 1}

\* line.trim().endsWith('};') for the line that ends at e.
EndsWithCloseSemi(s, e) ==
    LET S == {k \in LineStart(s, e)..(e - 1) : s[k] # SP}
    IN S # {} /\ Max(S) >= 2 /\ s[Max(S)] = SEMI /\ s[Max(S) - 1] = RB

RECURSIVE DropZoneLines(_, _, _)
DropZoneLines(s, zoneName, from) ==
    LET H == {h \in from..Len(s) :
                s[h] = ZONE(zoneName) /\ \A k \in LineStart(s, h)..(h - 1) : s[k] = SP}
        count(ls, e) == Cardinality({k \in ls..(e - 1) : s[k] = LB})
                            - Cardinality({k \in ls..(e - 1) : s[k] = RB})
        E(h, ls) == {e \in LineEnds(s, h) :
                       /\ \E k \in ls..(e - 1) : s[k] = LB
                       /\ count(ls, e) = 0
                       /\ EndsWithCloseSemi(s, e)}
        Drop(ls, ends) ==
            IF ends = {} THEN Slice(s, 1, ls - 2)
            ELSE DropZoneLines(Slice(s, 1, ls - 1) \o Slice(s, Min(ends) + 1, Len(s)),
                               zoneName, ls)
    IN IF H = {} THEN s
       ELSE Only({Drop(ls, E(Min(H), ls)) : ls \in {LineStart(s, Min(H))}})

removeAdblockZoneContent(configContent, zoneName) ==
    Trim(CollapseNL(DropZoneLines(configContent, zoneName, 1)))

(***************************************************************************)
(* The external validator, named-checkconf.  It rejects a document whose   *)
(* braces do not balance or whose statements are not where the grammar     *)
(* has them; it may reject any other document too (option -z loads the     *)
(* zone files).                                                            *)
(***************************************************************************)
\* The kind of what stands before position p, white space aside.
KindBefore(doc, p) ==
    LET B == {k \in 1..(p - 1) : ~IsWs(doc[k])}
    IN IF B = {} THEN "" ELSE doc[Max(B)][1]

\* The kind of the block around position i: "" at top level.  closeOf
\* gives the close brace of every open brace.
Around(doc, closeOf, i) ==
    LET S == {p \in DOMAIN closeOf : p < i /\ (closeOf[p] = 0 \/ closeOf[p] > i)}
    IN IF S = {} THEN "" ELSE KindBefore(doc, Max(S))

GrammarAt(doc, closeOf, i) ==
    LET k == doc[i][1]
        a == Around(doc, closeOf, i)
    IN CASE k \in {"view", "acl"} -> a = "" /\ HeaderOpen(doc, i) # 0
         [] k = "zone" -> a \in {"", "view"} /\ HeaderOpen(doc, i) # 0
         [] k \in {"type", "file", "sfile"} -> a = "zone"
         [] k = "w" -> a \in {"zone", "view"} /\ HeaderOpen(doc, i) # 0
         [] k = "item" -> a \in {"w", "acl"}
         [] k = "{" -> /\ a \in {"", "view", "zone"}
                       /\ KindBefore(doc, i) \in {"zone", "view", "acl", "w"}
         [] k = "}" -> i < Len(doc) /\ doc[i + 1] = SEMI
         [] k = ";" -> i > 1 /\ doc[i - 1] = RB
         [] OTHER -> TRUE

(***************************************************************************)
(* What the document declares, read as the name server reads it: a block   *)
(* is a header followed by an open brace, up to the matching close brace;  *)
(* a zone block is nested in the innermost view block around it ("" at     *)
(* top level).                                                             *)
(***************************************************************************)
Headers(doc, kind) ==
    {i \in 1..Len(doc) : doc[i][1] = kind /\ i < Len(doc) /\ doc[i + 1] = LB}

\* The views whose block holds position i, by the position of their header.
ViewsAround(doc, i) ==
    {p \in Headers(doc, "view") :
        /\ p < i
        /\ LET c == MatchClose(doc, p + 1) IN c = 0 \/ i < c}

ContainerOf(doc, i) ==
    LET S == ViewsAround(doc, i) IN IF S = {} THEN "" ELSE doc[Max(S)][2]

\* The zone blocks: <<position, zone name, view name>>.
ZoneOccs(doc) ==
    {<<i, doc[i][2], ContainerOf(doc, i)>> : i \in Headers(doc, "zone")}

ZoneCount(doc, z) == Cardinality({o \in ZoneOccs(doc) : o[2] = z})
ZoneIn(doc, z, v) == \E o \in ZoneOccs(doc) : o[2] = z /\ o[3] = v
ViewCount(doc, v) == Cardinality({i \in Headers(doc, "view") : doc[i][2] = v})

\* The brace count never goes below 0 and ends at 0.
Balanced(doc) ==
    LET lbs == Positions(doc, LB)
        rbs == Positions(doc, RB)
    IN /\ Cardinality(lbs) = Cardinality(rbs)
       /\ \A i \in rbs : Cardinality({k \in lbs : k < i})
                            >= Cardinality({k \in rbs : k <= i})

WellFormed(doc) ==
    LET closeOf == [p \in Positions(doc, LB) |-> MatchClose(doc, p)]
    IN Balanced(doc) /\ \A i \in 1..Len(doc) : GrammarAt(doc, closeOf, i)

(***************************************************************************)
(* Documents the system builds, for the checks of the content-only         *)
(* helpers: a sequence of items, each a top-level zone (as addZoneToConfig *)
(* appends it, or written by hand on one line), a view with zones (as      *)
(* addViewToConfig and addZoneToViewConfig build it), or the adblock zone  *)
(* in every view (as addAdblockZoneToConfig adds it).                      *)
(***************************************************************************)
SeqsUpTo(S, n) == UNION {[1..k -> S] : k \in 0..n}

\* `zone "n" { type master; file "f"; };\n`
HandZoneBlock(zoneName, zoneType, fileTok) ==
    <<ZONE(zoneName), LB, TYPE(zoneType), fileTok, RB, SEMI, NL>>

Items ==
    [k : {"zone", "hzone"}, n : ZoneNames, zs : {<<>>}]
    \cup [k : {"view"}, n : ViewNames, zs : SeqsUpTo(ZoneNames, MaxViewZones)]
    \cup [k : {"adblock"}, n : {AdblockZone}, zs : {<<>>}]

RECURSIVE InsertZones(_, _, _)
InsertZones(doc, viewName, zs) ==
    IF Len(zs) = 0 THEN doc
    ELSE InsertZones(
             insertZoneIntoViewContent(doc,
                 ZoneBlock(Head(zs), "master", FILE(ZoneFileName(Head(zs)))), viewName,
                 DefaultAcl).text,
             viewName, Tail(zs))

AddItem(doc, it) ==
    IF it.k = "zone"
    THEN doc \o <<NL>> \o ZoneBlock(it.n, "master", FILE(ZoneFileName(it.n)))
    ELSE IF it.k = "hzone"
    THEN doc \o HandZoneBlock(it.n, "master", FILE(ZoneFileName(it.n)))
    ELSE IF it.k = "adblock" THEN addAdblockZoneContent(doc, it.n, AdblockFile)
    ELSE InsertZones(
             IF IndexOfTok(doc, VIEW(it.n), 1) = 0
             THEN doc \o ViewBlock(it.n, DefaultAcl) ELSE doc,
             it.n, it.zs)

RECURSIVE Render(_)
Render(items) ==
    IF Len(items) = 0 THEN <<>>
    ELSE AddItem(Render(SubSeq(items, 1, Len(items) - 1)), items[Len(items)])

InputDocs == {Render(items) : items \in SeqsUpTo(Items, MaxItems)}

(***************************************************************************)
(* State.                                                                  *)
(***************************************************************************)
VARIABLES
    t,          \* the check of a content-only helper: input, arguments, outputs
    master,     \* the master file of one zone and the record edit in progress
    calls,      \* the createZone calls that run at the same time
    live,       \* the content of /etc/bind/named.conf.local
    backups,    \* the contents of the files named.conf.local.backup.<time>
    tmps,       \* the contents of the files named.conf.local.tmp.<time>
    settings,   \* settings.resolver.views: for a view name, acl and zones
    zfiles,     \* the zone files on disk, by their file clause
    op,         \* the operation in progress, or the last one
    nOps,       \* the number of operations started
    checked     \* the content of live has passed the validator

sysVars == <<master, calls, live, backups, tmps, settings, zfiles, op, nOps, checked>>
vars == <<t, master, calls, live, backups, tmps, settings, zfiles, op, nOps, checked>>

NoTok == <<"", "">>
AllViews == ViewNames \cup {"global"}
NoView == [in |-> FALSE, acl |-> DefaultAcl, zones |-> <<>>]

Has(l, x) == \E i \in 1..Len(l) : l[i] = x
Without(l, x) == SelectSeq(l, LAMBDA y : y # x)

\* new Date(): the local year, month and day.
Dates == {[year |-> 2026, month |-> 11, day |-> 4],
          [year |-> 2027, month |-> 1, day |-> 15]}
NoDate == [year |-> 0, month |-> 0, day |-> 0]

Idle ==
    [name |-> "", pc |-> "idle", zone |-> "", view |-> "", acl |-> DefaultAcl,
     pre |-> <<>>, preChecked |-> TRUE, cand |-> <<>>, file |-> NoTok,
     autoReload |-> FALSE, validate |-> FALSE, rejected |-> FALSE,
     reloadFailed |-> FALSE, restored |-> FALSE, res |-> "", error |-> "",
     now |-> NoDate, todo |-> <<>>]

\* No record edit in progress, no master file.
NoMaster ==
    [pc |-> "idle", name |-> "", zone |-> "", serial |-> <<>>, initial |-> <<>>, lines |-> <<>>,
     before |-> <<>>, key |-> <<"", "">>,
     n |-> 0, edits |-> 0, failed |-> FALSE, validate |-> FALSE,
     autoReload |-> FALSE, res |-> ""]

Procs == {1, 2}

\* No createZone call.
NoCalls ==
    [p \in Procs |->
        [pc |-> "idle", zone |-> "", view |-> "", content |-> <<>>, cand |-> <<>>,
         autoReload |-> FALSE, res |-> ""]]

(***************************************************************************)
(* The content-only helpers applied to the documents of InputDocs.         *)
(***************************************************************************)
TextStart(doc) ==
    [pc |-> "init", doc |-> doc, zone |-> "", view |-> "", acl |-> DefaultAcl,
     block |-> <<>>, out |-> <<>>, out2 |-> <<>>, err |-> FALSE, zones |-> {}]

\* The zone types of the blocks that are inserted.
ZoneTypes == {"master", "slave"}

SysIdle ==
    /\ master = NoMaster
    /\ calls = NoCalls
    /\ live = <<>>
    /\ backups = {}
    /\ tmps = {}
    /\ settings = [v \in AllViews |-> NoView]
    /\ zfiles = {}
    /\ op = Idle
    /\ nOps = 0
    /\ checked = TRUE

TextInit == t \in {TextStart(doc) : doc \in InputDocs} /\ SysIdle

TRemoveZone(z) ==
    /\ t.pc = "init"
    /\ t' = [t EXCEPT !.pc = "zoneRemoved", !.zone = z,
                      !.out = removeZoneFromConfigContent(t.doc, z)]
    /\ UNCHANGED sysVars

TRemoveView(v) ==
    /\ t.pc = "init"
    /\ t' = [t EXCEPT !.pc = "viewRemoved", !.view = v,
                      !.out = removeViewContent(t.doc, v)]
    /\ UNCHANGED sysVars

TMove(z, v, acl) ==
    /\ t.pc = "init"
    /\ LET r == buildMoveZoneToViewContent(t.doc, z, FILE(z), v, acl)
       IN t' = [t EXCEPT !.pc = "moved", !.zone = z, !.view = v, !.acl = acl,
                         !.out = r.text, !.err = r.err]
    /\ UNCHANGED sysVars

TMoveAgain ==
    /\ t.pc = "moved"
    /\ ~t.err
    /\ LET r == buildMoveZoneToViewContent(t.out, t.zone, FILE(t.zone), t.view, t.acl)
       IN t' = [t EXCEPT !.pc = "movedTwice", !.out2 = r.text, !.err = r.err]
    /\ UNCHANGED sysVars

\* insertZoneIntoViewContent(content, zoneBlock, viewName, viewAcl)
TInsert(z, v, acl, zoneType) ==
    /\ t.pc = "init"
    /\ \E zoneBlock \in {ZoneBlock(z, zoneType, FILE(z))} :
         \E r \in {insertZoneIntoViewContent(t.doc, zoneBlock, v, acl)} :
            t' = [t EXCEPT !.pc = "inserted", !.zone = z, !.view = v, !.acl = acl,
                           !.block = zoneBlock, !.out = r.text, !.err = r.err]
    /\ UNCHANGED sysVars

\* addZoneToViewConfig(zoneName, zoneFile, viewName, viewAcl, zoneType): the
\* view is added first when the content does not include `view "v"`; out is
\* the content of the live file when it returns.
TAddToView(z, v, acl, zoneType) ==
    /\ t.pc = "init"
    /\ \E content \in {IF IndexOfTok(t.doc, VIEW(v), 1) = 0
                       THEN addViewToConfigContent(t.doc, v, acl) ELSE t.doc} :
         \E r \in {addZoneToViewContent(content, z, FILE(z), v, zoneType)} :
            t' = [t EXCEPT !.pc = "added", !.zone = z, !.view = v, !.acl = acl,
                           !.block = ZoneBlock(z, zoneType, FILE(z)),
                           !.out = r.text, !.err = r.err]
    /\ UNCHANGED sysVars

\* listZones() on the document.
TListZones ==
    /\ t.pc = "init"
    /\ t' = [t EXCEPT !.pc = "listed", !.zones = listZones(t.doc)]
    /\ UNCHANGED sysVars

TextNext ==
    \/ TListZones
    \/ \E z \in ZoneNames \cup {AdblockZone} : TRemoveZone(z)
    \/ \E v \in ViewNames : TRemoveView(v)
    \/ \E z \in ZoneNames, v \in ViewNames, acl \in Acls : TMove(z, v, acl)
    \/ TMoveAgain
    \/ \E z \in ZoneNames, v \in ViewNames, acl \in Acls, zt \in ZoneTypes :
          TInsert(z, v, acl, zt)
    \/ \E z \in ZoneNames, v \in ViewNames, acl \in Acls, zt \in ZoneTypes :
          TAddToView(z, v, acl, zt)

SpecText == TextInit /\ [][TextNext]_vars

(***************************************************************************)
(* The same helpers on documents that end too early: a block may have no   *)
(* close brace.                                                            *)
(***************************************************************************)
BrokenItems ==
    { <<[k |-> "zone", n |-> "z1", zs |-> <<>>]>>,
      <<[k |-> "view", n |-> "internal", zs |-> <<"z1">>]>>,
      <<[k |-> "view", n |-> "internal", zs |-> <<"z1">>],
        [k |-> "view", n |-> "guest", zs |-> <<"z2">>]>> }

BrokenDocs ==
    UNION {{SubSeq(doc, 1, k) : k \in 1..(Len(doc) - 1)} :
           doc \in {Render(items) : items \in BrokenItems}}

BrokenInit == t \in {TextStart(doc) : doc \in BrokenDocs} /\ SysIdle

BrokenNext ==
    \/ \E z \in ZoneNames : TRemoveZone(z)
    \/ \E v \in ViewNames : TRemoveView(v)
    \/ \E z \in ZoneNames, v \in ViewNames, zt \in ZoneTypes :
          TInsert(z, v, DefaultAcl, zt)
    \/ \E z \in ZoneNames, v \in ViewNames, zt \in ZoneTypes :
          TAddToView(z, v, DefaultAcl, zt)

SpecBroken == BrokenInit /\ [][BrokenNext]_vars

(***************************************************************************)
(* The configurations the operations start from: a document the system     *)
(* has built, the settings and the zone files that go with it.             *)
(***************************************************************************)
Item(k, n, zs) == [k |-> k, n |-> n, zs |-> zs]

InitItems ==
    { <<>>,
      <<Item("zone", "z1", <<>>)>>,
      <<Item("hzone", "z1", <<>>)>>,
      <<Item("view", "internal", <<"z1">>)>>,
      <<Item("view", "internal", <<"z1">>), Item("view", "internal", <<"z2">>)>>,
      <<Item("view", "internal", <<"z1">>), Item("view", "guest", <<"z2">>)>>,
      <<Item("view", "internal", <<>>), Item("view", "guest", <<>>)>> }

RECURSIVE ZonesInView(_, _)
ZonesInView(items, viewName) ==
    IF Len(items) = 0 THEN <<>>
    ELSE (IF Head(items).k = "view" /\ Head(items).n = viewName
          THEN Head(items).zs ELSE <<>>) \o ZonesInView(Tail(items), viewName)

ConfigOf(items) ==
    [live |-> Render(items),
     settings |-> [v \in AllViews |->
                     IF \E i \in 1..Len(items) : items[i].k = "view" /\ items[i].n = v
                     THEN [in |-> TRUE, acl |-> DefaultAcl,
                           zones |-> ZonesInView(items, v)]
                     ELSE NoView],
     zfiles |-> {FILE(ZoneFileName(z)) : z \in {z \in ZoneNames \cup CreateNames :
                    \E i \in 1..Len(items) :
                        \/ items[i].k \in {"zone", "hzone"} /\ items[i].n = z
                        \/ items[i].k = "view" /\ Has(items[i].zs, z)}}]

Init ==
    /\ t = TextStart(<<>>)
    /\ master = NoMaster
    /\ calls = NoCalls
    /\ \E items \in InitItems :
        /\ live = ConfigOf(items).live
        /\ settings = ConfigOf(items).settings
        /\ zfiles = ConfigOf(items).zfiles
    /\ backups = {}
    /\ tmps = {}
    /\ op = Idle
    /\ nOps = 0
    /\ checked = TRUE

(***************************************************************************)
(* The operations on the live configuration, step by step.  One operation  *)
(* runs at a time; the settings zones.autoReload and                       *)
(* zones.validateBeforeReload are read when the operation begins.          *)
(***************************************************************************)
CanBegin == op.pc \in {"idle", "done"} /\ nOps < MaxOps

NewOp(name, zoneName, viewName) ==
    [Idle EXCEPT !.name = name, !.zone = zoneName, !.view = viewName,
                 !.pre = live, !.preChecked = checked]

Done(o, res) == [o EXCEPT !.pc = "done", !.res = res]

\* The arguments of the calls.
MasterIp == "10.0.0.1"
NewMasterIp == "10.0.0.2"
AclName == "lan"
AclEntries == <<"10.0.0.0/8">>

(* writeConfigWithValidation *)

\* fs.writeFile(tmpFile, content): the first step of every operation that
\* commits through writeConfigWithValidation.
WcvBegin(o, content) ==
    /\ CanBegin
    /\ nOps' = nOps + 1
    /\ op' = [o EXCEPT !.pc = "validate", !.cand = content]
    /\ tmps' = tmps \cup {content}

\* The operation ends before it writes anything.
EndAtOnce(o, res) ==
    /\ CanBegin
    /\ nOps' = nOps + 1
    /\ op' = Done(o, res)
    /\ tmps' = tmps

\* A rejection that does not stop the commit.
AfterRejectionMoves(o) == [o EXCEPT !.rejected = TRUE, !.pc = "move"]

\* What the operation does with the error of writeConfigWithValidation:
\* removeAdblockZoneFromConfig logs it and returns.
AfterRejection(o) ==
    IF o.name = "disableResolver" THEN [o EXCEPT !.rejected = TRUE, !.pc = "clear"]
    ELSE IF o.name = "removeAdblockZone" THEN Done([o EXCEPT !.rejected = TRUE], "ok")
    ELSE Done([o EXCEPT !.rejected = TRUE], "error")

\* named-checkconf -z tmpFile; on failure fs.unlink(tmpFile) and throw.
WcvValidate ==
    /\ op.pc = "validate"
    /\ \E ok \in BOOLEAN :
        IF ok /\ WellFormed(op.cand)
        THEN op' = [op EXCEPT !.pc = "move"] /\ tmps' = tmps
        ELSE op' = AfterRejection(op) /\ tmps' = tmps \ {op.cand}
    /\ UNCHANGED <<t, master, calls, live, backups, settings, zfiles, nOps, checked>>

\* What follows the commit in the operation.
AfterCommit(o) ==
    IF o.name = "convertToSlaveZone" THEN [o EXCEPT !.pc = "placeholder"]
    ELSE IF o.name = "disableResolver" THEN [o EXCEPT !.pc = "clear"]
    ELSE Done(o, "ok")

\* fs.move(tmpFile, filePath, { overwrite: true })
WcvMove ==
    /\ op.pc = "move"
    /\ live' = op.cand
    /\ checked' = TRUE
    /\ tmps' = tmps \ {op.cand}
    /\ op' = AfterCommit(op)
    /\ UNCHANGED <<t, master, calls, backups, settings, zfiles, nOps>>

(* the adblock zone *)

SetupAdblockZone ==
    LET o == NewOp("setupAdblockZone", AdblockZone, "")
    IN /\ CanBegin
       /\ IF IndexOfTok(live, ZONE(AdblockZone), 1) # 0
          THEN EndAtOnce(o, "ok")
          ELSE WcvBegin(o, addAdblockZoneContent(live, AdblockZone, AdblockFile))
       /\ zfiles' = zfiles \cup {AdblockFile}
       /\ UNCHANGED <<t, master, calls, live, backups, settings, checked>>

RemoveAdblockZone ==
    /\ CanBegin
    /\ WcvBegin(NewOp("removeAdblockZone", AdblockZone, ""),
                removeAdblockZoneContent(live, AdblockZone))
    /\ zfiles' = zfiles \ {AdblockFile}
    /\ UNCHANGED <<t, master, calls, live, backups, settings, checked>>

(* disableResolver *)

DisableResolver ==
    /\ CanBegin
    /\ WcvBegin(NewOp("disableResolver", AdblockZone, ""),
                removeAdblockZoneContent(live, AdblockZone))
    /\ zfiles' = zfiles \ {AdblockFile}
    /\ UNCHANGED <<t, master, calls, live, backups, settings, checked>>

\* fs.writeFile('/etc/bind/named.conf.local', '', 'utf8')
DrClear ==
    /\ op.pc = "clear"
    /\ live' = <<>>
    /\ checked' = FALSE
    /\ op' = [op EXCEPT !.pc = "drReload"]
    /\ UNCHANGED <<t, master, calls, backups, tmps, settings, zfiles, nOps>>

DrReload ==
    /\ op.pc = "drReload"
    /\ \E ok \in BOOLEAN :
        op' = IF ok THEN Done(op, "ok")
              ELSE Done([op EXCEPT !.reloadFailed = TRUE], "error")
    /\ UNCHANGED <<t, master, calls, live, backups, tmps, settings, zfiles, nOps, checked>>

(* the ACLs *)

CreateACL ==
    /\ CanBegin
    /\ IF AclListed(live, AclName)
       THEN EndAtOnce(NewOp("createACL", "", ""), "error")
       ELSE WcvBegin(NewOp("createACL", "", ""),
                     createACLContent(live, AclName, AclEntries))
    /\ UNCHANGED <<t, master, calls, live, backups, settings, zfiles, checked>>

DeleteACL ==
    /\ CanBegin
    /\ IF ~AclListed(live, AclName)
       THEN EndAtOnce(NewOp("deleteACL", "", ""), "error")
       ELSE WcvBegin(NewOp("deleteACL", "", ""), deleteACLContent(live, AclName))
    /\ UNCHANGED <<t, master, calls, live, backups, settings, zfiles, checked>>

(* the conversions *)

ConvertToSlaveZone(z) ==
    /\ CanBegin
    /\ WcvBegin(NewOp("convertToSlaveZone", z, ""),
                convertToSlaveContent(live, z, MasterIp, "none"))
    /\ UNCHANGED <<t, master, calls, live, backups, settings, zfiles, checked>>

\* The placeholder file of the slave zone, when it does not exist.
ConvertPlaceholder ==
    /\ op.pc = "placeholder"
    /\ zfiles' = zfiles \cup {SFILE(op.zone)}
    /\ op' = Done(op, "ok")
    /\ UNCHANGED <<t, master, calls, live, backups, tmps, settings, nOps, checked>>

ConvertToMasterZone(z) ==
    /\ CanBegin
    /\ WcvBegin(NewOp("convertToMasterZone", z, ""),
                convertToMasterContent(live, z, FILE(z)))
    /\ UNCHANGED <<t, master, calls, live, backups, settings, zfiles, checked>>

UpdateSlaveZoneMaster(z) ==
    /\ CanBegin
    /\ IF MastersMatch(live, z, 1).start = 0
       THEN EndAtOnce(NewOp("updateSlaveZoneMaster", z, ""), "error")
       ELSE WcvBegin(NewOp("updateSlaveZoneMaster", z, ""),
                     ReplaceMasters(live, z, NewMasterIp, 1))
    /\ UNCHANGED <<t, master, calls, live, backups, settings, zfiles, checked>>

SetZoneAllowTransfer(z) ==
    /\ CanBegin
    /\ IF AllowTransferMatch(live, z, 1).start = 0
       THEN EndAtOnce(NewOp("setZoneAllowTransfer", z, ""), "error")
       ELSE WcvBegin(NewOp("setZoneAllowTransfer", z, ""),
                     ReplaceAllowTransfer(live, z, AclName, 1))
    /\ UNCHANGED <<t, master, calls, live, backups, settings, zfiles, checked>>

(* reassignZone *)

\* getZone succeeds: listZones has the zone and its zone file can be read.
GetZoneOk(zones, zoneName) ==
    Listed(zones, zoneName) /\ ListedZone(zones, zoneName).file \in zfiles

\* An update of the membership that leaves the zone listed where it was.
MoveZoneToKeepsOld(viewsList, newViewName, zoneName) ==
    [viewsList EXCEPT ![newViewName] =
        IF @.in THEN [@ EXCEPT !.zones = Append(@, zoneName)]
        ELSE [in |-> TRUE, acl |-> DefaultAcl, zones |-> <<zoneName>>]]

\* The update of the membership after a reassignment.
MoveZoneTo(viewsList, newViewName, zoneName) ==
    LET removed == [v \in AllViews |->
                      [viewsList[v] EXCEPT !.zones = Without(@, zoneName)]]
    IN [removed EXCEPT ![newViewName] =
            IF @.in THEN [@ EXCEPT !.zones = Append(@, zoneName)]
            ELSE [in |-> TRUE, acl |-> DefaultAcl, zones |-> <<zoneName>>]]

\* Up to fs.writeFile(tmpFile, newContent).
ReassignZone(z, v, autoReload) ==
    LET o == [NewOp("reassignZone", z, v) EXCEPT !.autoReload = autoReload]
        targetViewAcl == IF settings[v].in THEN settings[v].acl ELSE DefaultAcl
        Write(zone) ==
            \E r \in {buildMoveZoneToViewContent(live, z, zone.file, v, targetViewAcl)} :
                IF r.err THEN op' = Done(o, "error") /\ tmps' = tmps
                ELSE /\ op' = [o EXCEPT !.pc = "reassignValidate", !.cand = r.text,
                                        !.file = zone.file]
                     /\ tmps' = tmps \cup {r.text}
    IN /\ CanBegin
       /\ nOps' = nOps + 1
       /\ \E zones \in {listZones(live)} :
            IF ~GetZoneOk(zones, z) THEN op' = Done(o, "error") /\ tmps' = tmps
            ELSE IF ListedZone(zones, z).view = v THEN op' = Done(o, "ok") /\ tmps' = tmps
            ELSE Write(ListedZone(zones, z))
       /\ UNCHANGED <<t, master, calls, live, backups, settings, zfiles, checked>>

\* named-checkconf -z tmpFile; on failure throw (the tmp file stays).
ReassignValidate ==
    /\ op.pc = "reassignValidate"
    /\ \E ok \in BOOLEAN :
        op' = IF ok /\ WellFormed(op.cand) THEN [op EXCEPT !.pc = "reassignBackup"]
              ELSE Done([op EXCEPT !.rejected = TRUE,
                                   !.error = "Config validation failed for proposed change"],
                        "error")
    /\ UNCHANGED <<t, master, calls, live, backups, tmps, settings, zfiles, nOps, checked>>

\* fs.copyFile(namedConfLocal, backupFile)
ReassignBackup ==
    /\ op.pc = "reassignBackup"
    /\ backups' = backups \cup {live}
    /\ op' = [op EXCEPT !.pc = "reassignMove"]
    /\ UNCHANGED <<t, master, calls, live, tmps, settings, zfiles, nOps, checked>>

\* fs.move(tmpFile, namedConfLocal, { overwrite: true })
ReassignMove ==
    /\ op.pc = "reassignMove"
    /\ live' = op.cand
    /\ checked' = TRUE
    /\ tmps' = tmps \ {op.cand}
    /\ op' = [op EXCEPT !.pc = IF op.autoReload THEN "reassignReload"
                                ELSE "reassignSettings"]
    /\ UNCHANGED <<t, master, calls, backups, settings, zfiles, nOps>>

\* A failure of the reload that is logged and not thrown.
ReassignReloadSwallowed ==
    /\ op.pc = "reassignReload"
    /\ \E ok \in BOOLEAN :
        op' = IF ok THEN [op EXCEPT !.pc = "reassignSettings"]
              ELSE [op EXCEPT !.reloadFailed = TRUE, !.pc = "reassignSettings"]
    /\ UNCHANGED <<t, master, calls, live, backups, tmps, settings, zfiles, nOps, checked>>

ReassignReload ==
    /\ op.pc = "reassignReload"
    /\ \E ok \in BOOLEAN :
        op' = IF ok THEN [op EXCEPT !.pc = "reassignSettings"]
              ELSE [op EXCEPT !.reloadFailed = TRUE, !.pc = "reassignRollback"]
    /\ UNCHANGED <<t, master, calls, live, backups, tmps, settings, zfiles, nOps, checked>>

\* fs.copyFile(backupFile, namedConfLocal), then throw; the copy may fail,
\* and then its own error leaves the catch block in place of the new Error.
\* The backup file holds what was live when the operation began.
ReassignRollback ==
    /\ op.pc = "reassignRollback"
    /\ \E ok \in BOOLEAN :
        IF ok
        THEN /\ live' = op.pre
             /\ checked' = op.preChecked
             /\ op' = Done([op EXCEPT !.restored = TRUE,
                                      !.error = "Reload failed after reassign; config restored"],
                           "error")
        ELSE /\ UNCHANGED <<live, checked>>
             /\ op' = Done([op EXCEPT !.error = "copyFile failed"], "error")
    /\ UNCHANGED <<t, master, calls, backups, tmps, settings, zfiles, nOps>>

ReassignSettings ==
    /\ op.pc = "reassignSettings"
    /\ settings' = MoveZoneTo(settings, op.view, op.zone)
    /\ op' = Done(op, "ok")
    /\ UNCHANGED <<t, master, calls, live, backups, tmps, zfiles, nOps, checked>>

(* createZone *)

AfterConfig(o) == IF o.autoReload THEN [o EXCEPT !.pc = "czReload"] ELSE Done(o, "ok")

\* Number.toString(): the decimal digits.
RECURSIVE DigitsOf(_)
DigitsOf(n) == IF n < 10 THEN <<n>> ELSE DigitsOf(n \div 10) \o <<n % 10>>

\* String(n).padStart(2, '0')
PadStart2(n) == IF n < 10 THEN <<0>> \o DigitsOf(n) ELSE DigitsOf(n)

\* generateSerial: `${year}${month}${day}01`
generateSerial(now) ==
    DigitsOf(now.year) \o PadStart2(now.month) \o PadStart2(now.day) \o <<0, 1>>

\* generateZoneFile of a forward zone with the options createZone fills in
\* when it is given a name and a view only: the serial field, the NS line
\* and the A lines.  A host name is its labels; ns is `ns1.${zoneName}.`.
generateZoneFile(zoneName, now) ==
    LET ns == <<"ns1", zoneName>>
        nsHostname == ns[1]
        serial == generateSerial(now)
    IN [NoMaster EXCEPT
            !.zone = zoneName, !.serial = serial, !.initial = serial,
            !.lines = <<[name |-> "@", type |-> "NS", value |-> ns],
                        [name |-> "@", type |-> "A", value |-> <<"127.0.0.1">>],
                        [name |-> nsHostname, type |-> "A", value |-> <<"127.0.0.1">>]>>]

\* Up to fs.writeFile(zoneFile, zoneContent); v = "" is no view.
CreateZone(z, v, autoReload) ==
    LET o == [NewOp("createZone", z, v) EXCEPT
                !.autoReload = autoReload,
                !.acl = IF v # "" /\ settings[v].in THEN settings[v].acl
                        ELSE DefaultAcl]
    IN /\ CanBegin
       /\ nOps' = nOps + 1
       /\ \E now \in Dates :
          IF Listed(listZones(live), z)
          THEN op' = Done(o, "error") /\ zfiles' = zfiles /\ master' = master
          ELSE /\ zfiles' = zfiles \cup {FILE(ZoneFileName(z))}
               /\ master' = generateZoneFile(z, now)
               /\ op' = [o EXCEPT !.now = now, !.pc =
                            IF v = "" THEN "czAppend"
                            ELSE IF IndexOfTok(live, VIEW(v), 1) = 0 THEN "czAddView"
                            ELSE "czAddZone"]
       /\ UNCHANGED <<t, calls, live, backups, tmps, settings, checked>>

\* bindConfig.addZoneToConfig
CzAppend ==
    /\ op.pc = "czAppend"
    /\ live' = addZoneToConfigContent(live, op.zone, FILE(ZoneFileName(op.zone)))
    /\ checked' = (checked /\ live' = live)
    /\ op' = AfterConfig(op)
    /\ UNCHANGED <<t, master, calls, backups, tmps, settings, zfiles, nOps>>

\* bindConfig.addZoneToViewConfig: the view is not there, addViewToConfig
CzAddView ==
    /\ op.pc = "czAddView"
    /\ live' = addViewToConfigContent(live, op.view, op.acl)
    /\ checked' = (checked /\ live' = live)
    /\ op' = [op EXCEPT !.pc = "czAddZone"]
    /\ UNCHANGED <<t, master, calls, backups, tmps, settings, zfiles, nOps>>

\* bindConfig.addZoneToViewConfig: the zone into the view, tmp file and move
CzAddZone ==
    /\ op.pc = "czAddZone"
    /\ \E r \in {addZoneToViewContent(live, op.zone, FILE(ZoneFileName(op.zone)),
                                      op.view, "master")} :
          /\ live' = r.text
          /\ checked' = (checked /\ r.text = live)
          /\ op' = IF r.err THEN Done(op, "error") ELSE [op EXCEPT !.pc = "czSettings"]
    /\ UNCHANGED <<t, master, calls, backups, tmps, settings, zfiles, nOps>>

\* The zone joins the zones of the view in the settings, when the settings
\* have the view.
AddZoneToView(viewsList, viewName, zoneName) ==
    IF viewsList[viewName].in /\ ~Has(viewsList[viewName].zones, zoneName)
    THEN [viewsList EXCEPT ![viewName].zones = Append(@, zoneName)]
    ELSE viewsList

CzSettings ==
    /\ op.pc = "czSettings"
    /\ settings' = AddZoneToView(settings, op.view, op.zone)
    /\ op' = AfterConfig(op)
    /\ UNCHANGED <<t, master, calls, live, backups, tmps, zfiles, nOps, checked>>

CzReload ==
    /\ op.pc = "czReload"
    /\ \E ok \in BOOLEAN :
        op' = IF ok THEN Done(op, "ok")
              ELSE Done([op EXCEPT !.reloadFailed = TRUE], "error")
    /\ UNCHANGED <<t, master, calls, live, backups, tmps, settings, zfiles, nOps, checked>>

(* deleteZone *)

\* The file of the zone found by
\* /zone\s+"n"\s*\{[\s\S]*?file\s+"([^"]+)";/ when getZone fails.
FileInConfig(content, zoneName) ==
    LET Fs(i) == {k \in (HeaderOpen(content, i) + 1)..Len(content) : IsFile(content[k])}
        S == {i \in Positions(content, ZONE(zoneName)) :
                HeaderOpen(content, i) # 0 /\ Fs(i) # {}}
    IN IF S = {} THEN NoTok ELSE content[Min(Fs(Min(S)))]

DeleteZone(z, validate, autoReload) ==
    /\ CanBegin
    /\ nOps' = nOps + 1
    /\ op' = [NewOp("deleteZone", z, "") EXCEPT
                !.pc = "dzBackup", !.validate = validate, !.autoReload = autoReload,
                !.file = Only({IF GetZoneOk(zones, z) THEN ListedZone(zones, z).file
                                ELSE FileInConfig(live, z) :
                                zones \in {listZones(live)}})]
    /\ UNCHANGED <<t, master, calls, live, backups, tmps, settings, zfiles, checked>>

\* removeZoneFromConfig: fs.copyFile(NAMED_CONF_LOCAL, backupFile)
DzBackup ==
    /\ op.pc = "dzBackup"
    /\ backups' = backups \cup {live}
    /\ op' = [op EXCEPT !.pc = "dzRemove"]
    /\ UNCHANGED <<t, master, calls, live, tmps, settings, zfiles, nOps, checked>>

\* A deleteZone that removes the zone file where it removes the zone block.
DzRemoveFileFirst ==
    /\ op.pc = "dzRemove"
    /\ zfiles' = zfiles \ {op.file}
    /\ op' = [op EXCEPT !.pc = "dzFile"]
    /\ UNCHANGED <<t, master, calls, live, backups, tmps, settings, nOps, checked>>

\* removeZoneFromConfig: the cleaned content, tmp file and move
DzRemove ==
    /\ op.pc = "dzRemove"
    /\ live' = removeZoneFromConfigContent(live, op.zone)
    /\ checked' = (checked /\ live' = live)
    /\ op' = [op EXCEPT !.pc = "dzFile"]
    /\ UNCHANGED <<t, master, calls, backups, tmps, settings, zfiles, nOps>>

\* The zone file is copied to a backup and removed.
DzFile ==
    /\ op.pc = "dzFile"
    /\ zfiles' = zfiles \ {op.file}
    /\ op' = [op EXCEPT !.pc = "dzSettings"]
    /\ UNCHANGED <<t, master, calls, live, backups, tmps, settings, nOps, checked>>

AfterCleanup(o) ==
    IF o.autoReload THEN [o EXCEPT !.pc = "dzReload"] ELSE Done(o, "ok")

DzSettings ==
    /\ op.pc = "dzSettings"
    /\ settings' = [v \in AllViews |->
                      [settings[v] EXCEPT !.zones = Without(@, op.zone)]]
    /\ op' = IF op.validate THEN [op EXCEPT !.pc = "dzValidate"] ELSE AfterCleanup(op)
    /\ UNCHANGED <<t, master, calls, live, backups, tmps, zfiles, nOps, checked>>

\* named-checkconf, on the configuration as it is now
DzValidate ==
    /\ op.pc = "dzValidate"
    /\ \E ok \in BOOLEAN :
        IF ok /\ WellFormed(live)
        THEN op' = AfterCleanup(op) /\ checked' = TRUE
        ELSE op' = Done([op EXCEPT !.rejected = TRUE], "error") /\ checked' = checked
    /\ UNCHANGED <<t, master, calls, live, backups, tmps, settings, zfiles, nOps>>

DzReload ==
    /\ op.pc = "dzReload"
    /\ \E ok \in BOOLEAN :
        op' = IF ok THEN Done(op, "ok")
              ELSE Done([op EXCEPT !.reloadFailed = TRUE], "error")
    /\ UNCHANGED <<t, master, calls, live, backups, tmps, settings, zfiles, nOps, checked>>

(* routes/views.js *)

\* POST /views: the settings first
ViewCreate(v, acl) ==
    LET o == [NewOp("viewCreate", "", v) EXCEPT !.acl = acl]
    IN /\ CanBegin
       /\ nOps' = nOps + 1
       /\ IF settings[v].in
          THEN op' = Done(o, "error") /\ settings' = settings
          ELSE /\ op' = [o EXCEPT !.pc = "vcAdd"]
               /\ settings' = [settings EXCEPT ![v] =
                                 [in |-> TRUE, acl |-> acl, zones |-> <<>>]]
       /\ UNCHANGED <<t, master, calls, live, backups, tmps, zfiles, checked>>

\* bindConfig.addViewToConfig
VcAdd ==
    /\ op.pc = "vcAdd"
    /\ live' = addViewToConfigContent(live, op.view, op.acl)
    /\ checked' = (checked /\ live' = live)
    /\ op' = Done(op, "ok")
    /\ UNCHANGED <<t, master, calls, backups, tmps, settings, zfiles, nOps>>

\* POST /views/:name: the settings first
ViewUpdate(v, acl) ==
    LET o == [NewOp("viewUpdate", "", v) EXCEPT !.acl = acl]
    IN /\ CanBegin
       /\ nOps' = nOps + 1
       /\ IF ~settings[v].in
          THEN op' = Done(o, "error") /\ settings' = settings
          ELSE /\ op' = [o EXCEPT !.pc = "vuRemove"]
               /\ settings' = [settings EXCEPT ![v].acl = acl]
       /\ UNCHANGED <<t, master, calls, live, backups, tmps, zfiles, checked>>

\* bindConfig.removeViewFromConfig
VuRemove ==
    /\ op.pc = "vuRemove"
    /\ live' = removeViewContent(live, op.view)
    /\ checked' = (checked /\ live' = live)
    /\ op' = [op EXCEPT !.pc = "vuAdd"]
    /\ UNCHANGED <<t, master, calls, backups, tmps, settings, zfiles, nOps>>

\* bindConfig.addViewToConfig, then the zones of the view in the settings
VuAdd ==
    /\ op.pc = "vuAdd"
    /\ live' = addViewToConfigContent(live, op.view, op.acl)
    /\ checked' = (checked /\ live' = live)
    /\ op' = IF Len(settings[op.view].zones) = 0 THEN Done(op, "ok")
             ELSE [op EXCEPT !.pc = "vuZone", !.todo = settings[op.view].zones]
    /\ UNCHANGED <<t, master, calls, backups, tmps, settings, zfiles, nOps>>

\* bindConfig.addZoneToViewConfig for the next zone of the view; an error
\* ends the loop and is logged.
VuZone ==
    /\ op.pc = "vuZone"
    /\ \E r \in {addZoneToViewContent(live, Head(op.todo), FILE(Head(op.todo)),
                                      op.view, "master")} :
          /\ live' = r.text
          /\ checked' = (checked /\ r.text = live)
          /\ op' = IF r.err \/ Len(op.todo) = 1 THEN Done([op EXCEPT !.todo = <<>>], "ok")
                   ELSE [op EXCEPT !.todo = Tail(@)]
    /\ UNCHANGED <<t, master, calls, backups, tmps, settings, zfiles, nOps>>

\* POST /views/:name/delete: the settings first
ViewDelete(v) ==
    LET o == NewOp("viewDelete", "", v)
    IN /\ CanBegin
       /\ nOps' = nOps + 1
       /\ IF ~settings[v].in \/ Len(settings[v].zones) > 0
          THEN op' = Done(o, "error") /\ settings' = settings
          ELSE /\ op' = [o EXCEPT !.pc = "vdRemove"]
               /\ settings' = [settings EXCEPT ![v] = NoView]
       /\ UNCHANGED <<t, master, calls, live, backups, tmps, zfiles, checked>>

\* bindConfig.removeViewFromConfig
VdRemove ==
    /\ op.pc = "vdRemove"
    /\ live' = removeViewContent(live, op.view)
    /\ checked' = (checked /\ live' = live)
    /\ op' = Done(op, "ok")
    /\ UNCHANGED <<t, master, calls, backups, tmps, settings, zfiles, nOps>>

Next ==
    \/ \E z \in ZoneNames, v \in ViewNames \cup {""}, ar \in BOOLEAN : CreateZone(z, v, ar)
    \/ CzAppend
    \/ CzAddView
    \/ CzAddZone
    \/ CzSettings
    \/ CzReload
    \/ \E z \in ZoneNames, va \in BOOLEAN, ar \in BOOLEAN : DeleteZone(z, va, ar)
    \/ DzBackup
    \/ DzRemove
    \/ DzFile
    \/ DzSettings
    \/ DzValidate
    \/ DzReload
    \/ \E z \in ZoneNames, v \in AllViews, ar \in BOOLEAN : ReassignZone(z, v, ar)
    \/ ReassignValidate
    \/ ReassignBackup
    \/ ReassignMove
    \/ ReassignReload
    \/ ReassignRollback
    \/ ReassignSettings
    \/ \E v \in ViewNames, acl \in Acls : ViewCreate(v, acl)
    \/ VcAdd
    \/ \E v \in ViewNames, acl \in Acls : ViewUpdate(v, acl)
    \/ VuRemove
    \/ VuAdd
    \/ VuZone
    \/ \E v \in ViewNames : ViewDelete(v)
    \/ VdRemove
    \/ SetupAdblockZone
    \/ RemoveAdblockZone
    \/ DisableResolver
    \/ DrClear
    \/ DrReload
    \/ CreateACL
    \/ DeleteACL
    \/ \E z \in ZoneNames : ConvertToSlaveZone(z)
    \/ ConvertPlaceholder
    \/ \E z \in ZoneNames : ConvertToMasterZone(z)
    \/ \E z \in ZoneNames : UpdateSlaveZoneMaster(z)
    \/ \E z \in ZoneNames : SetZoneAllowTransfer(z)
    \/ WcvValidate
    \/ WcvMove

Spec == Init /\ [][Next]_vars

(***************************************************************************)
(* createZone alone, on documents with the zones example.com and           *)
(* example-com.                                                            *)
(***************************************************************************)
CreateItems ==
    { <<>>,
      <<Item("zone", "example-com", <<>>)>>,
      <<Item("zone", "example.com", <<>>)>>,
      <<Item("view", "internal", <<"example-com">>)>>,
      <<Item("view", "internal", <<"example.com">>)>>,
      <<Item("view", "internal", <<>>), Item("zone", "example-com", <<>>)>>,
      <<Item("view", "guest", <<>>), Item("zone", "z1", <<>>)>>,
      <<Item("zone", "example.com.", <<>>)>> }

CreateInit ==
    /\ t = TextStart(<<>>)
    /\ master = NoMaster
    /\ calls = NoCalls
    /\ \E items \in CreateItems :
        /\ live = ConfigOf(items).live
        /\ settings = ConfigOf(items).settings
        /\ zfiles = ConfigOf(items).zfiles
    /\ backups = {}
    /\ tmps = {}
    /\ op = Idle
    /\ nOps = 0
    /\ checked = TRUE

CreateNext ==
    \/ \E z \in CreateNames, v \in ViewNames \cup {""}, ar \in BOOLEAN : CreateZone(z, v, ar)
    \/ CzAppend
    \/ CzAddView
    \/ CzAddZone
    \/ CzSettings
    \/ CzReload

SpecCreate == CreateInit /\ [][CreateNext]_vars

(***************************************************************************)
(* bindService.js: addRecord, updateRecord and deleteRecord on the master  *)
(* file of one zone.  The file is the digits of its serial field, the      *)
(* token that `; Serial` follows, and its record lines.                    *)
(***************************************************************************)
SerialWidth == 10
MaxEdits == 3

\* The serial fields the system writes: the placeholder of a slave zone, the
\* adblock zone file, generateSerial() on the first and on a later day.
InitialSerials ==
    { <<1>>,
      <<2, 0, 2, 4, 1, 1, 1, 4, 0, 1>>,
      <<2, 0, 2, 6, 1, 1, 0, 4, 0, 1>>,
      <<2, 0, 2, 6, 1, 1, 0, 4, 9, 9>> }

RecordNames == {"www", "mail"}
RecordValues == {"192.0.2.1", "192.0.2.2"}
Records == [name : RecordNames, type : {"A"}, value : RecordValues]

\* parseInt(digits).toString(): the digits without leading zeros.
RECURSIVE Canon(_)
Canon(d) == IF Len(d) > 1 /\ d[1] = 0 THEN Canon(Tail(d)) ELSE d

\* The digits of the number plus one.
RECURSIVE PlusOne(_)
PlusOne(d) ==
    IF Len(d) = 0 THEN <<1>>
    ELSE IF d[Len(d)] < 9 THEN [d EXCEPT ![Len(d)] = @ + 1]
    ELSE PlusOne(SubSeq(d, 1, Len(d) - 1)) \o <<0>>

\* incrementSerial on the serial field: /(\d{10})\s*;\s*Serial/i matches the
\* last ten digits of the field, and nothing when the field is shorter.
incrementSerial(serial) ==
    IF Len(serial) < SerialWidth THEN serial
    ELSE SubSeq(serial, 1, Len(serial) - SerialWidth)
            \o PlusOne(Canon(SubSeq(serial, Len(serial) - SerialWidth + 1, Len(serial))))

RecCanBegin == master.pc = "idle" /\ master.serial # <<>> /\ master.n < MaxEdits

\* The edit returns.
RecDone(mm, ok) ==
    [mm EXCEPT !.pc = "idle", !.res = IF ok THEN "ok" ELSE "error",
               !.edits = IF ok THEN @ + 1 ELSE @, !.failed = @ \/ ~ok]

\* After fs.writeFile(zoneFile, zoneContent): checkZone when
\* validateBeforeReload is set, reloadBind when autoReload is set.
AfterWrite(mm) ==
    IF mm.validate THEN [mm EXCEPT !.pc = "check"]
    ELSE IF mm.autoReload THEN [mm EXCEPT !.pc = "reload"]
    ELSE RecDone(mm, TRUE)

Matches(line, name, type) == line.name = name /\ line.type = type

AddRecord(record, validate, autoReload) ==
    /\ RecCanBegin
    /\ master' = AfterWrite([master EXCEPT
                    !.name = "addRecord", !.n = @ + 1,
                    !.before = master.lines, !.key = <<record.name, record.type>>,
                    !.validate = validate, !.autoReload = autoReload,
                    !.serial = incrementSerial(@),
                    !.lines = Append(@, record)])
    /\ UNCHANGED <<t, calls, live, backups, tmps, settings, zfiles, op, nOps, checked>>

\* The first line of the old record's name and type becomes the new record;
\* without such a line the edit throws before it writes.
UpdateRecord(oldRecord, newRecord, validate, autoReload) ==
    LET mm == [master EXCEPT !.name = "updateRecord", !.n = @ + 1,
                             !.before = master.lines,
                             !.key = <<oldRecord.name, oldRecord.type>>,
                             !.validate = validate, !.autoReload = autoReload]
        found == {k \in 1..Len(master.lines) :
                    Matches(master.lines[k], oldRecord.name, oldRecord.type)}
    IN /\ RecCanBegin
       /\ master' = IF found = {} THEN RecDone(mm, FALSE)
                    ELSE AfterWrite([mm EXCEPT
                            !.serial = incrementSerial(@),
                            !.lines = [@ EXCEPT ![Min(found)] = newRecord]])
       /\ UNCHANGED <<t, calls, live, backups, tmps, settings, zfiles, op, nOps, checked>>

\* The lines of the name and type go; deleteRecord does not call checkZone.
DeleteRecord(recordName, recordType, autoReload) ==
    /\ RecCanBegin
    /\ master' = AfterWrite([master EXCEPT
                    !.name = "deleteRecord", !.n = @ + 1,
                    !.before = master.lines, !.key = <<recordName, recordType>>,
                    !.validate = FALSE, !.autoReload = autoReload,
                    !.serial = incrementSerial(@),
                    !.lines = SelectSeq(@, LAMBDA line :
                                  ~Matches(line, recordName, recordType))])
    /\ UNCHANGED <<t, calls, live, backups, tmps, settings, zfiles, op, nOps, checked>>

\* checkZone: named-checkzone on the file that has been written.
RecCheck ==
    /\ master.pc = "check"
    /\ \E ok \in BOOLEAN :
        master' = IF ~ok THEN RecDone(master, FALSE)
                  ELSE IF master.autoReload THEN [master EXCEPT !.pc = "reload"]
                  ELSE RecDone(master, TRUE)
    /\ UNCHANGED <<t, calls, live, backups, tmps, settings, zfiles, op, nOps, checked>>

RecReload ==
    /\ master.pc = "reload"
    /\ \E ok \in BOOLEAN : master' = RecDone(master, ok)
    /\ UNCHANGED <<t, calls, live, backups, tmps, settings, zfiles, op, nOps, checked>>

RecInit ==
    /\ master \in {[NoMaster EXCEPT !.serial = d, !.initial = d] : d \in InitialSerials}
    /\ t = TextStart(<<>>)
    /\ calls = NoCalls
    /\ live = <<>>
    /\ backups = {}
    /\ tmps = {}
    /\ settings = [v \in AllViews |-> NoView]
    /\ zfiles = {}
    /\ op = Idle
    /\ nOps = 0
    /\ checked = TRUE

RecNext ==
    \/ \E r \in Records, va \in BOOLEAN, ar \in BOOLEAN : AddRecord(r, va, ar)
    \/ \E o \in Records, r \in Records, va \in BOOLEAN, ar \in BOOLEAN :
            UpdateRecord(o, r, va, ar)
    \/ \E n \in RecordNames, ar \in BOOLEAN : DeleteRecord(n, "A", ar)
    \/ RecCheck
    \/ RecReload

SpecRec == RecInit /\ [][RecNext]_vars

(***************************************************************************)
(* bindService.js: formatRecord and parseZoneFile.  A line of a master file *)
(* is its kind and its words, the pieces that split(/\s+/) gives for the    *)
(* trimmed line; a word is a string or a number in decimal.  A value of a   *)
(* record is its words, with one space between two of them.                *)
(***************************************************************************)
Word(s) == [num |-> FALSE, s |-> s, n |-> 0]
Num(n) == [num |-> TRUE, s |-> "", n |-> n]
TextLine(words) == [k |-> "text", w |-> words]
CommentLine(words) == [k |-> "comment", w |-> words]

DefaultTtl == 3600
DefaultPriority == 10

\* A field that is 0 is a field the record does not have (x || default).
OrDefault(x, default) == IF x = 0 THEN default ELSE x

\* formatRecord: padEnd adds spaces only, which the split of the parser
\* takes away again.
formatRecord(record) ==
    LET head == <<Word(record.name), Num(OrDefault(record.ttl, DefaultTtl)),
                  Word("IN"), Word(record.type)>>
    IN TextLine(
        IF record.type = "MX"
        THEN head \o <<Num(OrDefault(record.priority, DefaultPriority))>> \o record.value
        ELSE IF record.type = "SRV"
        THEN head \o <<Num(OrDefault(record.priority, DefaultPriority)),
                       Num(OrDefault(record.weight, 0)),
                       Num(OrDefault(record.port, 0))>> \o record.value
        ELSE head \o record.value)

\* parts.indexOf('IN') + 1, 0 when there is none
IndexOfIn(parts) ==
    LET S == {i \in 1..Len(parts) : parts[i] = Word("IN")}
    IN IF S = {} THEN 0 ELSE CHOOSE i \in S : \A j \in S : i <= j

\* parseZoneFile on one line: the records it pushes, none or one.
ParseLine(line) ==
    LET parts == line.w
        inIndex == IndexOfIn(parts)
    IN IF line.k # "text" THEN <<>>
       ELSE IF \E i \in 1..Len(parts) : parts[i] = Word("SOA") THEN <<>>
       ELSE IF Len(parts) >= 4 /\ inIndex # 0
       THEN <<[name |-> parts[1],
               type |-> IF inIndex + 1 <= Len(parts) THEN parts[inIndex + 1]
                        ELSE Word("undefined"),
               value |-> SubSeq(parts, inIndex + 2, Len(parts)),
               ttl |-> IF parts[2].num THEN parts[2].n ELSE DefaultTtl]>>
       ELSE <<>>

RECURSIVE parseZoneFile(_)
parseZoneFile(content) ==
    IF Len(content) = 0 THEN <<>>
    ELSE ParseLine(Head(content)) \o parseZoneFile(Tail(content))

\* The records that are formatted: every type, with and without ttl,
\* priority, weight and port.
RecordTypes == {"A", "CNAME", "TXT", "NS", "PTR", "MX", "SRV"}
RecordInputs ==
    [name : {"www", "@"}, ttl : {0, 300}, type : RecordTypes,
     value : {<<Word("host.example.com.")>>, <<Word("v=spf1"), Word("-all")>>},
     priority : {0, 20}, weight : {0, 5}, port : {0, 5060}]

\* generateZoneFile after the NS line.  A zone name is its labels; a host
\* name is its labels and the number of dots at its end; host 0 is no
\* host<N> label in front.
Target(host, name, dots) == [host |-> host, name |-> name, dots |-> dots]
GenLine(k, owner, type, target) ==
    [k |-> k, owner |-> owner, type |-> type, target |-> target]

\* zoneName.includes('in-addr.arpa')
IsReverseZone(zoneName) ==
    \E i \in 1..(Len(zoneName) - 1) : zoneName[i] = "in-addr" /\ zoneName[i + 1] = "arpa"

\* The name with the dots it came with.
KeepDots(h) == h

\* x.replace(/\.+$/, '') + '.'
OneDot(h) == [[h EXCEPT !.dots = 0] EXCEPT !.dots = @ + 1]

PtrLast == 254

\* options.domain || 'example.com.'; no domain is the empty name.
DomainForPTR(options) ==
    IF options.domain.name = <<>> THEN Target(0, <<"example", "com">>, 1)
    ELSE options.domain

\* The lines after `; Name servers` and the NS line.
GeneratedLines(zoneName, options) ==
    LET ns == OneDot(Target(0, <<"ns1">> \o zoneName, 1))
        domainForPTR == OneDot(DomainForPTR(options))
        autoGeneratePTR == options.autoGeneratePTR # "false"
        none == Target(0, <<>>, 0)
    IN IF IsReverseZone(zoneName)
       THEN <<GenLine("text", ns, "A", none)>> \o
            (IF autoGeneratePTR
             THEN <<GenLine("comment", none, "", none), GenLine("comment", none, "", none)>>
                  \o [i \in 1..PtrLast |->
                        GenLine("text", Target(i, <<>>, 0), "PTR",
                                Target(i, domainForPTR.name, domainForPTR.dots))]
             ELSE <<GenLine("comment", none, "", none),
                    GenLine("comment", none, "", none),
                    GenLine("comment", none, "PTR", Target(1, domainForPTR.name,
                                                          domainForPTR.dots))>>)
       ELSE <<GenLine("comment", none, "", none),
              GenLine("text", Target(0, <<"@">>, 0), "A", none),
              GenLine("text", Target(0, <<ns.name[1]>>, 0), "A", none)>>

\* The zones that are generated and the options they are generated with.
GenZones == {<<"3", "2", "1", "in-addr", "arpa">>, <<"example", "com">>}
GenOptions ==
    [domain : {Target(0, <<>>, 0)}
                \cup {Target(0, <<"lan", "test">>, d) : d \in 0..2},
     autoGeneratePTR : {"true", "false", "undefined"}]

\* The line of the serial: the digits, the spaces between them and the
\* `;`, and the word after it (`Serial` or `serial`).
SerialGap == 7
SerialGaps == {1, SerialGap, 11}
SerialLines == [digits : InitialSerials, gap : SerialGaps, tag : {"Serial", "serial"}]

\* incrementSerial on the line: /(\d{10})\s*;\s*Serial/i is replaced by the
\* new number, seven spaces and `; Serial`.
incrementSerialLine(line) ==
    IF Len(line.digits) < SerialWidth THEN line
    ELSE [digits |-> incrementSerial(line.digits), gap |-> SerialGap, tag |-> "Serial"]

FileStart(kind, input) ==
    [pc |-> "init", kind |-> kind, input |-> input, text |-> <<>>, records |-> <<>>]

FFormat ==
    /\ t.pc = "init" /\ t.kind = "record"
    /\ t' = [t EXCEPT !.pc = "formatted", !.text = <<formatRecord(t.input)>>]
    /\ UNCHANGED sysVars

FGenerate ==
    /\ t.pc = "init" /\ t.kind = "zone"
    /\ t' = [t EXCEPT !.pc = "generated",
                      !.text = GeneratedLines(t.input.zone, t.input.options)]
    /\ UNCHANGED sysVars

FIncrement ==
    /\ t.pc = "init" /\ t.kind = "serial"
    /\ t' = [t EXCEPT !.pc = "incremented", !.text = <<incrementSerialLine(t.input)>>]
    /\ UNCHANGED sysVars

FParse ==
    /\ t.pc = "formatted"
    /\ t' = [t EXCEPT !.pc = "parsed", !.records = parseZoneFile(t.text)]
    /\ UNCHANGED sysVars

FileInit ==
    /\ t \in {FileStart("record", r) : r \in RecordInputs}
             \cup {FileStart("zone", [zone |-> z, options |-> o]) :
                     z \in GenZones, o \in GenOptions}
             \cup {FileStart("serial", l) : l \in SerialLines}
    /\ SysIdle

FileNext ==
    \/ FFormat
    \/ FGenerate
    \/ FIncrement
    \/ FParse

SpecFile == FileInit /\ [][FileNext]_vars

(***************************************************************************)
(* bindService.js: two createZone calls at the same time, for different    *)
(* zone names.  Every await of a call is a step; the other call may run    *)
(* between two steps.  The temporary files of the two calls have different *)
(* names.                                                                  *)
(***************************************************************************)
CallZone(p) == IF p = 1 THEN "z1" ELSE "z2"

CallDone(c, res) == [c EXCEPT !.pc = "done", !.res = res]

\* After the configuration has the zone: reloadBind when autoReload is set.
CallAfterConfig(c) ==
    IF c.autoReload THEN [c EXCEPT !.pc = "reload"] ELSE CallDone(c, "ok")

\* createZone up to the check `existingZones.find(...)`.
CcBegin(p, v, autoReload) ==
    LET c == [calls[p] EXCEPT !.zone = CallZone(p), !.view = v,
                              !.autoReload = autoReload]
    IN /\ calls[p].pc = "idle"
       /\ calls' = [calls EXCEPT ![p] =
                        IF Listed(listZones(live), c.zone) THEN CallDone(c, "error")
                        ELSE [c EXCEPT !.pc = "file"]]
       /\ UNCHANGED <<t, master, live, backups, tmps, settings, zfiles, op, nOps, checked>>

\* fs.writeFile(zoneFile, zoneContent)
CcWriteFile(p) ==
    /\ calls[p].pc = "file"
    /\ zfiles' = zfiles \cup {FILE(calls[p].zone)}
    /\ calls' = [calls EXCEPT ![p].pc = IF calls[p].view = "" THEN "azRead" ELSE "avRead"]
    /\ UNCHANGED <<t, master, live, backups, tmps, settings, op, nOps, checked>>

\* addZoneToConfig: fs.readFile and the test of the zone pattern
CcAzRead(p) ==
    /\ calls[p].pc = "azRead"
    /\ calls' = [calls EXCEPT ![p] =
                    IF IndexOfTok(live, ZONE(calls[p].zone), 1) # 0
                    THEN CallAfterConfig(calls[p])
                    ELSE [calls[p] EXCEPT !.pc = "azAppend"]]
    /\ UNCHANGED <<t, master, live, backups, tmps, settings, zfiles, op, nOps, checked>>

\* addZoneToConfig: fs.appendFile(NAMED_CONF_LOCAL, zoneBlock)
CcAzAppend(p) ==
    /\ calls[p].pc = "azAppend"
    /\ live' = live \o <<NL>> \o ZoneBlock(calls[p].zone, "master", FILE(calls[p].zone))
    /\ checked' = FALSE
    /\ calls' = [calls EXCEPT ![p] = CallAfterConfig(calls[p])]
    /\ UNCHANGED <<t, master, backups, tmps, settings, zfiles, op, nOps>>

\* addZoneToViewConfig: fs.readFile and content.includes(`view "v"`)
CcAvRead(p) ==
    /\ calls[p].pc = "avRead"
    /\ calls' = [calls EXCEPT ![p].content = live,
                              ![p].pc = IF IndexOfTok(live, VIEW(calls[p].view), 1) = 0
                                        THEN "avViewRead" ELSE "avWrite"]
    /\ UNCHANGED <<t, master, live, backups, tmps, settings, zfiles, op, nOps, checked>>

\* addViewToConfig: fs.readFile and the test of the view pattern
CcAvViewRead(p) ==
    /\ calls[p].pc = "avViewRead"
    /\ calls' = [calls EXCEPT ![p].pc = IF IndexOfTok(live, VIEW(calls[p].view), 1) # 0
                                        THEN "avReread" ELSE "avViewAppend"]
    /\ UNCHANGED <<t, master, live, backups, tmps, settings, zfiles, op, nOps, checked>>

\* addViewToConfig: fs.appendFile(NAMED_CONF_LOCAL, viewBlock)
CcAvViewAppend(p) ==
    /\ calls[p].pc = "avViewAppend"
    /\ live' = live \o ViewBlock(calls[p].view,
                                 IF settings[calls[p].view].in
                                 THEN settings[calls[p].view].acl ELSE DefaultAcl)
    /\ checked' = FALSE
    /\ calls' = [calls EXCEPT ![p].pc = "avReread"]
    /\ UNCHANGED <<t, master, backups, tmps, settings, zfiles, op, nOps>>

\* addZoneToViewConfig: content = await fs.readFile(...) after addViewToConfig
CcAvReread(p) ==
    /\ calls[p].pc = "avReread"
    /\ calls' = [calls EXCEPT ![p].content = live, ![p].pc = "avWrite"]
    /\ UNCHANGED <<t, master, live, backups, tmps, settings, zfiles, op, nOps, checked>>

\* addZoneToViewConfig: the new content, from the content that was read, and
\* fs.writeFile(tmpFile, newViewContent)
CcAvWrite(p) ==
    /\ calls[p].pc = "avWrite"
    /\ \E r \in {addZoneToViewContent(calls[p].content, calls[p].zone,
                                     FILE(calls[p].zone), calls[p].view, "master")} :
        IF r.err THEN calls' = [calls EXCEPT ![p] = CallDone(calls[p], "error")]
                      /\ tmps' = tmps
        ELSE IF r.skip THEN calls' = [calls EXCEPT ![p].pc = "settings"] /\ tmps' = tmps
        ELSE /\ calls' = [calls EXCEPT ![p].pc = "avMove", ![p].cand = r.text]
             /\ tmps' = tmps \cup {r.text}
    /\ UNCHANGED <<t, master, live, backups, settings, zfiles, op, nOps, checked>>

\* A move that leaves the live file as it is.
CcAvMoveNothing(p) ==
    /\ calls[p].pc = "avMove"
    /\ calls' = [calls EXCEPT ![p].pc = "settings"]
    /\ UNCHANGED <<t, master, live, backups, tmps, settings, zfiles, op, nOps, checked>>

\* addZoneToViewConfig: fs.move(tmpFile, NAMED_CONF_LOCAL, { overwrite: true })
CcAvMove(p) ==
    /\ calls[p].pc = "avMove"
    /\ live' = calls[p].cand
    /\ checked' = FALSE
    /\ tmps' = tmps \ {calls[p].cand}
    /\ calls' = [calls EXCEPT ![p].pc = "settings"]
    /\ UNCHANGED <<t, master, backups, settings, zfiles, op, nOps>>

\* createZone: the zone joins the zones of the view in the settings.
CcSettings(p) ==
    /\ calls[p].pc = "settings"
    /\ settings' = AddZoneToView(settings, calls[p].view, calls[p].zone)
    /\ calls' = [calls EXCEPT ![p] = CallAfterConfig(calls[p])]
    /\ UNCHANGED <<t, master, live, backups, tmps, zfiles, op, nOps, checked>>

CcReload(p) ==
    /\ calls[p].pc = "reload"
    /\ \E ok \in BOOLEAN :
        calls' = [calls EXCEPT ![p] = CallDone(calls[p], IF ok THEN "ok" ELSE "error")]
    /\ UNCHANGED <<t, master, live, backups, tmps, settings, zfiles, op, nOps, checked>>

ConcInit ==
    /\ t = TextStart(<<>>)
    /\ master = NoMaster
    /\ calls = NoCalls
    /\ \E items \in InitItems :
        /\ live = ConfigOf(items).live
        /\ settings = ConfigOf(items).settings
        /\ zfiles = ConfigOf(items).zfiles
    /\ backups = {}
    /\ tmps = {}
    /\ op = Idle
    /\ nOps = 0
    /\ checked = TRUE

ConcNext ==
    \E p \in Procs :
        \/ \E v \in ViewNames \cup {""}, ar \in BOOLEAN : CcBegin(p, v, ar)
        \/ CcWriteFile(p)
        \/ CcAzRead(p)
        \/ CcAzAppend(p)
        \/ CcAvRead(p)
        \/ CcAvViewRead(p)
        \/ CcAvViewAppend(p)
        \/ CcAvReread(p)
        \/ CcAvWrite(p)
        \/ CcAvMove(p)
        \/ CcSettings(p)
        \/ CcReload(p)

SpecConc == ConcInit /\ [][ConcNext]_vars

(***************************************************************************)
(* Claims about the operations on the live configuration (Spec).           *)
(***************************************************************************)
CommitOps ==
    {"reassignZone", "createACL", "deleteACL", "convertToSlaveZone",
     "convertToMasterZone", "updateSlaveZoneMaster", "setZoneAllowTransfer",
     "setupAdblockZone", "removeAdblockZone"}

\* C1: in reassignZone, createACL, deleteACL, convertToSlaveZone,
\* convertToMasterZone, updateSlaveZoneMaster, setZoneAllowTransfer and the
\* addition and removal of the adblock zone, once the validator has rejected
\* the candidate the live file holds what it held when the operation began.
C1_RejectedKeepsLive ==
    (op.name \in CommitOps /\ op.rejected) => live = op.pre

\* A well-formed candidate of reassignZone, different from the live file,
\* has been rejected and the operation has returned.
C1_Witness ==
    /\ op.name = "reassignZone" /\ op.pc = "done" /\ op.rejected
    /\ op.cand # op.pre /\ WellFormed(op.cand)
    /\ live = op.pre

ReloadFailedInReassign ==
    op.name = "reassignZone" /\ op.pc = "done" /\ op.reloadFailed

\* C2, as the code has it: when reassignZone returns after the candidate
\* replaced the live file and the reload failed, it reports an error; the
\* live file holds its content of before the operation when the copy from
\* the backup succeeded, and the candidate when that copy failed.
C2_ReloadFailureRestores ==
    ReloadFailedInReassign =>
        /\ op.res = "error"
        /\ op.restored => live = op.pre
        /\ ~op.restored => live = op.cand

\* The reload failed, the copy succeeded, and the live file is back to a
\* content that differs from the candidate.
C2_Witness ==
    ReloadFailedInReassign /\ op.restored /\ live = op.pre /\ op.cand # op.pre

\* C2, as stated: when reassignZone returns after a failed reload the live
\* file holds its content of before the operation, and an error is reported.
C2_AlwaysRestored ==
    ReloadFailedInReassign => (live = op.pre /\ op.res = "error")

\* The settings list no zone in a view that the live document does not have
\* nested in that view.
MembershipReflected ==
    \A v \in AllViews, z \in ZoneNames :
        Has(settings[v].zones, z) => ZoneIn(live, z, v)

MembershipOps == {"createZone", "deleteZone", "reassignZone", "viewCreate", "viewDelete"}

\* C3: no step of createZone, deleteZone, reassignZone, view create or view
\* delete leads from a state in which the settings list only what the live
\* document has to a state in which they list a zone in a view that the live
\* document does not have nested in that view.
C3_MembershipInEveryState ==
    [][(op'.name \in MembershipOps /\ MembershipReflected) => MembershipReflected']_vars

AtMostOneBlock(doc) ==
    \A o1 \in ZoneOccs(doc), o2 \in ZoneOccs(doc) : o1[2] = o2[2] => o1 = o2

OneBlockOps ==
    {"createZone", "reassignZone", "convertToSlaveZone", "convertToMasterZone",
     "viewUpdate", "setupAdblockZone"}

\* C4: a createZone, reassignZone, convertToSlaveZone, convertToMasterZone,
\* view update or setupAdblockZone that began on a live document with at
\* most one block for every zone name and returned with success leaves a
\* live document with at most one block for every zone name.
C4_OneBlockPerName ==
    (op.name \in OneBlockOps /\ op.pc = "done" /\ op.res = "ok"
        /\ AtMostOneBlock(op.pre)) => AtMostOneBlock(live)

\* C5: the live file never holds a content that has not passed the
\* validator.
C5_LiveIsValidated == checked

\* The steps that replace the live file: the move of
\* writeConfigWithValidation, of addZoneToViewConfig, of removeViewFromConfig,
\* of removeZoneFromConfig and of reassignZone, and the writeFile of
\* disableResolver.
ReplaceSteps ==
    {"move", "czAddZone", "vuZone", "vuRemove", "vdRemove", "dzRemove",
     "reassignMove", "clear"}

\* C6: a step that replaces the content of the live file by another leaves
\* a backup that holds the content that was replaced.
C6_BackupBeforeReplace ==
    [][(op.pc \in ReplaceSteps /\ live' # live) => live \in backups']_vars

(***************************************************************************)
(* Claims about the record edits (SpecRec).                                *)
(***************************************************************************)
RECURSIVE Plus(_, _)
Plus(d, k) == IF k = 0 THEN d ELSE Plus(PlusOne(d), k - 1)

\* C7: after k edits that all returned with success, the serial of the
\* master file is its serial before the first edit plus k.
C7_SerialCountsEdits ==
    (master.pc = "idle" /\ ~master.failed)
        => Canon(master.serial) = Plus(Canon(master.initial), master.edits)

(***************************************************************************)
(* Claims about two createZone calls at the same time (SpecConc).          *)
(***************************************************************************)
BothOk == \A p \in Procs : calls[p].pc = "done" /\ calls[p].res = "ok"

InLive(p) == IndexOfTok(live, ZONE(CallZone(p)), 1) # 0

\* C8: when both calls have reported success the live document has the zone
\* block of at least one of them: an interleaving loses the update of one
\* call, never of both.
C8_OneZoneSurvives == BothOk => \E p \in Procs : InLive(p)

\* Both calls have reported success and the live document has the zone
\* block of one of them only.
C8_LostUpdate == BothOk /\ \E p \in Procs : ~InLive(p)

C10_RescanFindsNothing ==
    /\ (t.pc = "zoneRemoved" /\ Balanced(t.doc))
            => IndexOfTok(t.out, ZONE(t.zone), 1) = 0
    /\ (t.pc = "viewRemoved" /\ Balanced(t.doc))
            => IndexOfTok(t.out, VIEW(t.view), 1) = 0

\* The interior of a block: what stands between its braces.
Interior(doc, b) == Slice(doc, b.open + 1, b.close - 1)

\* The zone blocks of a document: name, container and interior.
ZoneBlocks(doc) ==
    {<<o[2], o[3], Interior(doc, BlockFrom(doc, o[1], o[1] + 1))>> : o \in ZoneOccs(doc)}

\* C11: after the insertion of a zone block B into a view, by
\* insertZoneIntoViewContent or by addZoneToViewConfig, the scan for the
\* zone name finds a block that is nested in the target view and whose
\* interior is the interior of B, and the other zone blocks of the document
\* are what they were.
C11_InsertThenFind ==
    (t.pc \in {"inserted", "added"} /\ ~t.err) =>
        \E b \in {FindBlock(t.out, ZONE(t.zone))} :
            /\ b.start # 0 /\ b.close # 0
            /\ ContainerOf(t.out, b.start) = t.view
            /\ Interior(t.out, b) = Slice(t.block, 3, Len(t.block) - 3)
            /\ ZoneBlocks(t.out) \ {<<t.zone, t.view, Interior(t.out, b)>>}
                  = ZoneBlocks(t.doc) \ {<<t.zone, t.view, Interior(t.out, b)>>}

\* The types that the blocks of zone z have in a document.
TypesOf(doc, z) ==
    UNION {{doc[k][2] : k \in {k \in b.open..b.close : doc[k][1] = "type"}} :
           b \in {BlockFrom(doc, o[1], o[1] + 1) : o \in {o \in ZoneOccs(doc) : o[2] = z}}}

\* C12: a reassignZone that returned with success leaves the zone with the
\* type it had before: a slave zone is still a slave zone.
C12_MoveKeepsType ==
    (op.name = "reassignZone" /\ op.pc = "done" /\ op.res = "ok"
        /\ ZoneCount(op.pre, op.zone) = 1)
    => TypesOf(live, op.zone) = TypesOf(op.pre, op.zone)

\* The documents that insertions of zones into views build from the empty
\* document.
InsertDocs ==
    {Render(items) : items \in SeqsUpTo({it \in Items : it.k = "view"}, MaxItems)}

\* C13: on a document built by insertions of zones into views, listZones
\* has one entry for a zone name, has every zone that is nested in a view
\* with the name of that view, and has no zone that is nested in a view as a
\* top-level zone.
C13_ListZonesOfViews ==
    (t.pc = "listed" /\ t.doc \in InsertDocs) =>
        /\ \A e1 \in t.zones, e2 \in t.zones : e1.name = e2.name => e1 = e2
        /\ \A o \in ZoneOccs(t.doc) :
              o[3] # "" => \E e \in t.zones : e.name = o[2] /\ e.view = o[3]
        /\ \A e \in t.zones : e.view = "" => ZoneIn(t.doc, e.name, "")

\* The lines of the master file before the edit that have the name and the
\* type of the edit.
FoundBefore == {k \in 1..Len(master.before) :
                  Matches(master.before[k], master.key[1], master.key[2])}

\* C14: updateRecord and deleteRecord act on one line, the first that has
\* the name and the type: after updateRecord the other lines are what they
\* were, and after deleteRecord the file has its lines of before without that
\* one line.
C14_OneLineEdited ==
    /\ (master.name = "updateRecord" /\ FoundBefore # {}) =>
            /\ Len(master.lines) = Len(master.before)
            /\ \A k \in 1..Len(master.before) :
                  k # Min(FoundBefore) => master.lines[k] = master.before[k]
    /\ (master.name = "deleteRecord" /\ FoundBefore # {}) =>
            master.lines = SubSeq(master.before, 1, Min(FoundBefore) - 1)
                             \o SubSeq(master.before, Min(FoundBefore) + 1,
                                       Len(master.before))

\* C15, as the code has it: deleteZone first commits the removal of the zone
\* block from the live configuration, then removes the zone file, then
\* removes the zone from the settings.  The step that changes the live file
\* finds the zone file that getZone read still on disk and changes nothing
\* else; the step that removes the zone file runs on the cleaned live file;
\* the step that changes the settings runs when the zone file is gone.
C15_ConfigThenFileThenSettings ==
    [][op.name = "deleteZone" =>
        /\ live' # live =>
              /\ live = op.pre /\ zfiles' = zfiles /\ settings' = settings
              /\ GetZoneOk(listZones(op.pre), op.zone) => op.file \in zfiles
        /\ zfiles' # zfiles =>
              /\ live = removeZoneFromConfigContent(op.pre, op.zone)
              /\ live' = live /\ settings' = settings
        /\ settings' # settings =>
              /\ live = removeZoneFromConfigContent(op.pre, op.zone)
              /\ op.file \notin zfiles]_vars

\* deleteZone has changed the live file and removed the zone file, and the
\* settings still list the zone in a view.
C15_Witness ==
    /\ op.name = "deleteZone" /\ op.pc = "dzSettings"
    /\ live # op.pre
    /\ op.file # NoTok /\ op.file \notin zfiles
    /\ \E v \in AllViews : Has(settings[v].zones, op.zone)

\* C15, as stated: deleteZone does not change the live configuration before
\* the zone file has been removed.
C15_FileBeforeConfig ==
    [][(op.name = "deleteZone" /\ live' # live) => op.file \notin zfiles]_vars

\* C16: in convertToSlaveZone the slave file is on disk whenever the
\* candidate that is validated, or the live file, has the zone block that
\* names it.
C16_SlaveFileExists ==
    op.name = "convertToSlaveZone" =>
        /\ (op.pc = "validate" /\ IndexOfTok(op.cand, SFILE(op.zone), 1) # 0)
                => SFILE(op.zone) \in zfiles
        /\ IndexOfTok(live, SFILE(op.zone), 1) # 0 => SFILE(op.zone) \in zfiles

\* C17: once an operation has returned after the validator rejected its
\* candidate, the temporary file written for that candidate is gone.
C17_RejectedTmpDeleted ==
    (op.pc = "done" /\ op.rejected) => op.cand \notin tmps

\* C18: when the reload fails in reassignZone and the copy from the backup
\* fails too, the error returned says the configuration may be mismatched; it
\* is neither the "config restored" message nor the copy failure alone.
C18_MismatchReported ==
    (op.name = "reassignZone" /\ op.pc = "done" /\ op.reloadFailed /\ ~op.restored)
        => /\ op.error = "configuration may be in a mismatched state"
           /\ op.error # "Reload failed after reassign; config restored"
           /\ op.error # "copyFile failed"

\* The match-clients list of the first view block named v.
ViewMatchClients(doc, v) ==
    LET p == IndexOfTok(doc, VIEW(v), 1)
        m == IndexOfTok(doc, W("match-clients"), p)
        e == IndexOfTok(doc, RB, m)
    IN [i \in 1..(e - m - 2) |-> doc[m + 1 + i][2]]

\* The zone of the operation is nested in view internal, in its only block,
\* before a reassignment to a view guest that the live document did not have.
FromInternalToNewGuest ==
    /\ op.name = "reassignZone" /\ op.view = "guest"
    /\ IndexOfTok(op.pre, VIEW("guest"), 1) = 0
    /\ \A o \in ZoneOccs(op.pre) : o[2] = op.zone => o[3] = "internal"
    /\ ZoneCount(op.pre, op.zone) = 1

C20_CreateAtTopLevel ==
    (/\ op.name = "createZone" /\ op.pc = "done" /\ op.res = "ok"
     /\ op.zone = "example.com" /\ op.view = ""
     /\ ZoneCount(op.pre, op.zone) = 0)
    => /\ ZoneCount(live, op.zone) = 1
       /\ ZoneIn(live, op.zone, "")
       /\ FILE(op.zone) \in zfiles
       /\ master.zone = op.zone
       /\ Len(master.serial) = 10
       /\ master.serial[1] * 1000 + master.serial[2] * 100
            + master.serial[3] * 10 + master.serial[4] = op.now.year
       /\ master.serial[5] * 10 + master.serial[6] = op.now.month
       /\ master.serial[7] * 10 + master.serial[8] = op.now.day
       /\ master.serial[9] = 0 /\ master.serial[10] = 1
       /\ \E i \in 1..Len(master.lines) :
            master.lines[i].type = "NS" /\ master.lines[i].value = <<"ns1", "example.com">>

\* C21: the parse of the line that formatRecord gives for a record is one
\* record with the name, the ttl (3600 when the record has none), the type
\* and the value of the record.
C21_ParseOfFormat ==
    (t.pc = "parsed" /\ t.kind = "record") =>
        /\ Len(t.records) = 1
        /\ t.records[1].name = Word(t.input.name)
        /\ t.records[1].ttl = OrDefault(t.input.ttl, DefaultTtl)
        /\ t.records[1].type = Word(t.input.type)
        /\ t.records[1].value = t.input.value

\* The PTR record lines of a generated text.
PtrLines(text) ==
    {i \in 1..Len(text) : text[i].k = "text" /\ text[i].type = "PTR"}

\* C22: for a reverse zone with PTR generation enabled the generated text
\* has exactly 254 PTR record lines, for every N of 1..254 one with owner N
\* and target host<N>.<domain> with one dot at its end, and none for 0 or
\* 255; with PTR generation disabled it has no PTR record line.
C22_PtrSweep ==
    (t.pc = "generated" /\ IsReverseZone(t.input.zone)) =>
        LET domain == IF t.input.options.domain.name = <<>> THEN <<"example", "com">>
                      ELSE t.input.options.domain.name
            ptr == PtrLines(t.text)
        IN IF t.input.options.autoGeneratePTR = "false" THEN ptr = {}
           ELSE /\ Cardinality(ptr) = 254
                /\ \A n \in 1..254 :
                     Cardinality({i \in ptr : t.text[i].owner.host = n}) = 1
                /\ \A i \in ptr :
                     /\ t.text[i].owner.host \in 1..254
                     /\ t.text[i].owner.name = <<>>
                     /\ t.text[i].target.host = t.text[i].owner.host
                     /\ t.text[i].target.name = domain
                     /\ t.text[i].target.dots = 1

C22_Witness ==
    /\ t.pc = "generated" /\ IsReverseZone(t.input.zone)
    /\ t.input.options.autoGeneratePTR = "undefined"
    /\ t.input.options.domain.dots = 2
    /\ Cardinality(PtrLines(t.text)) = 254

\* C23: incrementSerial puts the number plus one in the place of the number
\* that `; Serial` follows, the comment stays in its column, and nothing else
\* of the line changes.
C23_SerialKeepsWidth ==
    (t.pc = "incremented") =>
        /\ Canon(t.text[1].digits) = PlusOne(Canon(t.input.digits))
        /\ Len(t.text[1].digits) + t.text[1].gap = Len(t.input.digits) + t.input.gap
        /\ t.text[1].tag = t.input.tag

\* C24: after the edit of the ACL of a view every zone block that was nested
\* in the view is nested in it with the interior it had.
C24_AclEditKeepsZones ==
    (op.name = "viewUpdate" /\ op.pc = "done" /\ op.res = "ok") =>
        \A b \in ZoneBlocks(op.pre) : b[2] = op.view => b \in ZoneBlocks(live)

ConvertOps == {"convertToSlaveZone", "convertToMasterZone"}

\* C25: after a successful conversion of a zone that had one block, the zone
\* has one block, in the container it was in, and the blocks of the other
\* zones are what they were.
C25_ConvertInPlace ==
    (op.name \in ConvertOps /\ op.pc = "done" /\ op.res = "ok"
        /\ ZoneCount(op.pre, op.zone) = 1)
    => /\ ZoneCount(live, op.zone) = 1
       /\ \A v \in ViewNames \cup {"", "global"} :
             ZoneIn(live, op.zone, v) = ZoneIn(op.pre, op.zone, v)
       /\ {b \in ZoneBlocks(live) : b[1] # op.zone}
             = {b \in ZoneBlocks(op.pre) : b[1] # op.zone}

\* The header is in the document and the open brace after it has no
\* matching close brace (or there is no open brace after it).
Unclosed(doc, header) ==
    \E b \in {FindBlock(doc, header)} : b.start # 0 /\ b.close = 0

Absent(doc, header) == IndexOfTok(doc, header, 1) = 0

\* The removals on a block that has no close brace or is not there, and the
\* insertions into a view that has no close brace.
NoPartialEdit ==
    /\ (t.pc = "zoneRemoved"
            /\ (Unclosed(t.doc, ZONE(t.zone)) \/ Absent(t.doc, ZONE(t.zone))))
          => t.out = t.doc
    /\ (t.pc = "viewRemoved"
            /\ (Unclosed(t.doc, VIEW(t.view)) \/ Absent(t.doc, VIEW(t.view))))
          => t.out = t.doc
    /\ (t.pc = "inserted" /\ Unclosed(t.doc, VIEW(t.view))) => t.err
    /\ (t.pc = "added" /\ Unclosed(t.doc, VIEW(t.view))) => (t.err /\ t.out = t.doc)

C27_TrailingDot ==
    [][(nOps' = nOps + 1 /\ op'.name = "createZone")
       => /\ (\E o \in ZoneOccs(live) : ZoneFileName(o[2]) = ZoneFileName(op'.zone))
               => op'.res = "error"
          /\ IndexOfTok(live, FILE(ZoneFileName(op'.zone)), 1) # 0
               => master' = master]_vars

PatternOps ==
    {"convertToSlaveZone", "convertToMasterZone", "setZoneAllowTransfer",
     "updateSlaveZoneMaster", "deleteACL"}

\* C28: the candidate that an edit by pattern builds from a brace-balanced
\* live document is brace-balanced.
C28_PatternEditBalanced ==
    (op.name \in PatternOps /\ op.pc = "validate" /\ Balanced(op.pre))
        => Balanced(op.cand)

\* C29: once setupAdblockZone has returned successfully, the live document
\* holds a zone "adblock" block in each of its views when it has views, and
\* at top level when it has none.
ViewsOfDoc(doc) == {doc[i][2] : i \in Headers(doc, "view")}
C29_AdblockInEveryView ==
    (op.name = "setupAdblockZone" /\ op.pc = "done" /\ op.res = "ok")
        => IF ViewsOfDoc(live) = {}
           THEN ZoneIn(live, AdblockZone, "")
           ELSE \A v \in ViewsOfDoc(live) : ZoneIn(live, AdblockZone, v)

(***************************************************************************)
(* bindService.js: two addRecord calls on one zone at the same time.  A    *)
(* call gives way at each await: after getZone, after fs.readFile, after  *)
(* fs.writeFile, after checkZone and after reloadBind.  From the text that *)
(* readFile returned to the call of writeFile nothing is awaited.          *)
(***************************************************************************)
\* No addRecord call.
NoAdds ==
    [p \in Procs |->
        [pc |-> "idle", record |-> <<>>, serial |-> <<>>, lines |-> <<>>,
         validate |-> FALSE, autoReload |-> FALSE, res |-> ""]]

AddDone(c, ok) == [c EXCEPT !.pc = "done", !.res = IF ok THEN "ok" ELSE "error"]

\* settingsUtil.loadSettings() and this.getZone(zoneName)
AaBegin(p, record, validate, autoReload) ==
    /\ calls[p].pc = "idle"
    /\ calls' = [calls EXCEPT ![p] = [@ EXCEPT !.pc = "read", !.record = record,
                                               !.validate = validate,
                                               !.autoReload = autoReload]]
    /\ UNCHANGED <<t, master, live, backups, tmps, settings, zfiles, op, nOps, checked>>

\* zoneContent = await fs.readFile(zoneFile, 'utf8')
AaRead(p) ==
    /\ calls[p].pc = "read"
    /\ calls' = [calls EXCEPT ![p] = [@ EXCEPT !.pc = "write", !.serial = master.serial,
                                               !.lines = master.lines]]
    /\ UNCHANGED <<t, master, live, backups, tmps, settings, zfiles, op, nOps, checked>>

\* incrementSerial(zoneContent), zoneContent += `\n${recordLine}`,
\* fs.writeFile(zoneFile, zoneContent): the file becomes the text this call
\* read, with its serial bumped and its record appended.
AaWrite(p) ==
    /\ calls[p].pc = "write"
    /\ master' = [master EXCEPT !.serial = incrementSerial(calls[p].serial),
                                !.lines = Append(calls[p].lines, calls[p].record),
                                !.n = @ + 1]
    /\ calls' = [calls EXCEPT ![p] =
                    IF @.validate THEN [@ EXCEPT !.pc = "check"]
                    ELSE IF @.autoReload THEN [@ EXCEPT !.pc = "reload"]
                    ELSE AddDone(@, TRUE)]
    /\ UNCHANGED <<t, live, backups, tmps, settings, zfiles, op, nOps, checked>>

\* this.checkZone(zoneName, zoneFile)
AaCheck(p) ==
    /\ calls[p].pc = "check"
    /\ \E ok \in BOOLEAN :
        calls' = [calls EXCEPT ![p] =
                    IF ~ok THEN AddDone(@, FALSE)
                    ELSE IF @.autoReload THEN [@ EXCEPT !.pc = "reload"]
                    ELSE AddDone(@, TRUE)]
    /\ UNCHANGED <<t, master, live, backups, tmps, settings, zfiles, op, nOps, checked>>

\* this.reloadBind()
AaReload(p) ==
    /\ calls[p].pc = "reload"
    /\ \E ok \in BOOLEAN : calls' = [calls EXCEPT ![p] = AddDone(@, ok)]
    /\ UNCHANGED <<t, master, live, backups, tmps, settings, zfiles, op, nOps, checked>>

AddInit ==
    /\ master \in {[NoMaster EXCEPT !.serial = d, !.initial = d] : d \in InitialSerials}
    /\ t = TextStart(<<>>)
    /\ calls = NoAdds
    /\ live = <<>>
    /\ backups = {}
    /\ tmps = {}
    /\ settings = [v \in AllViews |-> NoView]
    /\ zfiles = {}
    /\ op = Idle
    /\ nOps = 0
    /\ checked = TRUE

AddNext ==
    \E p \in Procs :
        \/ \E r \in Records, va \in BOOLEAN, ar \in BOOLEAN : AaBegin(p, r, va, ar)
        \/ AaRead(p)
        \/ AaWrite(p)
        \/ AaCheck(p)
        \/ AaReload(p)

SpecAdd == AddInit /\ [][AddNext]_vars

\* C30: when two addRecord calls on one zone have both returned success, the
\* master file holds the two new records and its serial is the serial it
\* began with plus 2.
BothAdded == \A p \in Procs : calls[p].pc = "done" /\ calls[p].res = "ok"
C30_BothRecordsKept ==
    BothAdded
        => /\ master.lines \in {<<calls[1].record, calls[2].record>>,
                                <<calls[2].record, calls[1].record>>}
           /\ Canon(master.serial) = PlusOne(PlusOne(Canon(master.initial)))

=============================================================================
